---- MODULE Spec2Model ----
(***************************************************************************)
(* A model of the request-time engine of super_badass_videos_web_server.py *)
(* : the capability-token store, the connection registry, the catalog      *)
(* cache and the byte-range streaming of /video.                           *)
(*                                                                         *)
(* The components share no state, so each has a specification of its own   *)
(* over its own variables:                                                 *)
(*   Spec      the token store, request threads and the sweeper interleaved*)
(*   SeqSpec   the token store, one handler at a time                      *)
(*   RegSpec   the connection registry, its lock and the maintenance loop  *)
(*   RegFairSpec RegSpec with the maintenance thread scheduled fairly      *)
(*   RegSeqSpec  the connection registry, one request at a time            *)
(*   MonSpec   RegSpec with /monitor-data requests among the threads       *)
(*   MaintSpec   the maintenance loop step by step, beside a request thread *)
(*   LockSpec  track_connection lock by lock, beside the maintenance loop  *)
(*   SweepFairSpec  the maintenance loop, scheduled fairly, after a burst  *)
(*               of requests                                               *)
(*   CatSpec   the catalog cache over a changing directory tree            *)
(*   StreamSpec  the /video route as a function of the file and the header *)
(***************************************************************************)
EXTENDS Integers, Sequences, FiniteSets, TLC

\* ------------------------------------------------------------------ bounds
NThreads == 2          \* request-handling worker threads
MaxTokens == 1         \* tokens issued in one run
MaxTicks == 2          \* clock advances in one run
Epoch == 4000          \* the clock's value at start-up (time.time() is large)
NewAddrs == 2          \* client addresses the registry has not seen at start-up
MaxLists == 2          \* get_video_list calls in one run
MaxFsChanges == 2      \* changes to the catalog roots in one run
MaxSize == 12          \* the largest file served, in bytes
MaxRequests == 2       \* requests the registry's threads take in one run

\* ------------------------------------------------------- program constants
TOKEN_USED_CLEANUP_TIME == 3600
TOKEN_LIFETIME == 300
CONNECTION_TIMEOUT == 30
MAX_CONNECTIONS == 100
CLEANUP_COUNT == 10

VARIABLES
    now,            \* time.time()
    ticks,          \* clock advances so far
    valid_tokens,   \* the dict valid_tokens: token -> token_info
    issued,         \* how many tokens secrets.token_urlsafe has produced
    th,             \* per thread: position in its handler and its locals
    hist,           \* history: what the callers of each token observed
    active_connections,  \* the dict active_connections, in insertion order
    connection_lock,     \* the thread holding connection_lock, or Free
    rt,                  \* per thread: position in its request and its locals
    maint,               \* the maintenance loop's locals; caught: the last cycle
                         \* ended in the except branch of line 269
    requests,            \* requests the registry's threads have taken
    iface,               \* ip_to_interface_cache, interface_cache_last_update and
                         \* the thread holding interface_cache_lock, or Free
    video_list_cache,    \* the dict video_list_cache
    fs,                  \* the directory tree under each catalog root
    lt,                  \* per thread: position in get_video_list and its locals
    cat_hist,            \* per catalog: which branch stored the snapshot; calls so
                         \* far; scans: the output and timestamp of every scan
    sreq,                \* the /video request being answered
    sresp                \* the response to it

tokVars == <<valid_tokens, issued, th, hist>>
regVars == <<active_connections, connection_lock, rt, maint, requests, iface>>
catVars == <<video_list_cache, fs, lt, cat_hist>>
strVars == <<sreq, sresp>>
vars == <<now, ticks, tokVars, regVars, catVars, strVars>>

\* ------------------------------------------------------------------ values
None == <<>>                 \* Python's None; a timestamp t is <<t>>
Some(t) == <<t>>
NoToken == 0                 \* the empty string: no secretnumber argument
Tokens == 1..MaxTokens       \* identifiers, in the order they are produced
Threads == 1..NThreads
Maint == 0                   \* the cleanup_expired_connections thread
Procs == Threads \cup {Maint}
Passwords == {"secret", "wrong"}
SECRET_PASSWORD == "secret"

\* token_info: the structured record, or the legacy bare number
Dict(e, u) == [tag |-> "dict", expire_time |-> e, used_time |-> u, value |-> 0]
Num(v) == [tag |-> "num", expire_time |-> 0, used_time |-> None, value |-> v]

Idle == [pc |-> "idle", op |-> "none", tok |-> NoToken, ct |-> 0, expired |-> <<>>,
         isize |-> 0, cnt |-> 0, ret |-> "idle", num |-> FALSE,
         res |-> "none", pw |-> ""]

\* ------------------------------------------------------- clean_expired_tokens
\* The test of lines 200-210: is this entry put on the expired list?
\* A faulty variant: every entry is kept for the grace period.
token_expired_late(info, t) ==
    IF info.tag = "num" THEN info.value > 0 /\ t > info.value
    ELSE IF info.used_time = None
         THEN info.expire_time > 0 /\ t > info.expire_time + TOKEN_USED_CLEANUP_TIME
         ELSE t > info.used_time[1] + TOKEN_USED_CLEANUP_TIME

token_expired(info, t) ==
    IF info.tag = "num" THEN info.value > 0 /\ t > info.value
    ELSE IF info.used_time = None
         THEN info.expire_time > 0 /\ t > info.expire_time
         ELSE t > info.used_time[1] + TOKEN_USED_CLEANUP_TIME

\* ------------------------------------------------------------ is_token_valid
\* Lines 222-238, on the token_info read at line 222.
\* A faulty variant: a used token never stops being valid.
token_info_valid_forever(info, t) ==
    IF info.tag = "num" THEN (info.value = -1 \/ info.value > t)
    ELSE IF info.used_time = None THEN info.expire_time > t
         ELSE TRUE

token_info_valid(info, t) ==
    IF info.tag = "num" THEN (info.value = -1 \/ info.value > t)
    ELSE IF info.used_time = None THEN info.expire_time > t
         ELSE t <= info.used_time[1] + TOKEN_USED_CLEANUP_TIME

\* The whole function, lines 217-238, evaluated at one instant.
is_token_valid(tokens, token, t) ==
    IF token = NoToken \/ token \notin DOMAIN tokens THEN FALSE
    ELSE token_info_valid(tokens[token], t)

\* ------------------------------------------------------------ dict helpers
DelKey(d, k) == [x \in (DOMAIN d) \ {k} |-> d[x]]
PutKey(d, k, v) == [x \in (DOMAIN d) \cup {k} |-> IF x = k THEN v ELSE d[x]]
\* dict iteration follows insertion order; identifiers are produced in order
NextKey(d, pos) == CHOOSE k \in DOMAIN d : k > pos /\ \A j \in DOMAIN d : j > pos => k <= j
HasNextKey(d, pos) == \E k \in DOMAIN d : k > pos

\* ------------------------------------------------------------------- Init
InitClock ==
    /\ now = Epoch
    /\ ticks = 0

InitTokens ==
    /\ valid_tokens = <<>>
    /\ issued = 0
    /\ th = [p \in Procs |-> Idle]
    /\ hist = [consumed |-> [k \in Tokens |-> 0],
               first_use |-> [k \in Tokens |-> None],
               invalidated |-> {}]

\* ------------------------------------------------------------------ clock
\* The clock moves by a token's lifetime or by the grace window, so that a
\* deadline is met exactly and then passed.
TickSteps == {TOKEN_LIFETIME, TOKEN_USED_CLEANUP_TIME}

Tick ==
    /\ ticks < MaxTicks
    /\ \E d \in TickSteps : now' = now + d
    /\ ticks' = ticks + 1
    /\ UNCHANGED <<valid_tokens, issued, th, hist, regVars, catVars, strVars>>

\* What a request may carry as secretnumber: nothing, or an identifier, be it
\* one the server has produced or not (yet).
RequestTokens == Tokens \cup {NoToken}

\* A handler returns r: its locals are gone.
Finish(p, r) ==
    [th EXCEPT ![p] = [Idle EXCEPT !.pc = "done", !.op = th[p].op, !.tok = th[p].tok,
                                   !.res = r]]

\* An exception leaving a handler: the request ends with a 500; in the
\* maintenance loop it is caught at line 269.
Raise(p, e) == Finish(p, e)

\* -------------------------------------------------- verify_secret (1701-1715)
\* A faulty variant: the token's lifetime is forgotten.
issue_expired(tokens, token, t) == PutKey(tokens, token, Dict(t, None))

\* A faulty variant: the token is stored as its bare expiry time.
issue_bare(tokens, token, t) == PutKey(tokens, token, Num(t + TOKEN_LIFETIME))

\* lines 1709-1712: the store with the new token in it
issue(tokens, token, t) == PutKey(tokens, token, Dict(t + TOKEN_LIFETIME, None))

VerifySecret(p) ==
    /\ p \in Threads
    /\ th[p].pc = "idle"
    /\ \E password \in Passwords :
        IF password = SECRET_PASSWORD
        THEN /\ issued < MaxTokens
             /\ issued' = issued + 1
             /\ valid_tokens' = issue(valid_tokens, issued + 1, now)
             /\ th' = [th EXCEPT ![p].pc = "done", ![p].op = "verify_secret",
                                 ![p].tok = issued + 1, ![p].res = "success",
                                 ![p].pw = password]
        ELSE /\ th' = [th EXCEPT ![p].pc = "done", ![p].op = "verify_secret",
                                 ![p].res = "rejected", ![p].pw = password]
             /\ UNCHANGED <<valid_tokens, issued>>
    /\ UNCHANGED <<now, ticks, hist, regVars, catVars, strVars>>

\* ------------------------------------------- clean_expired_tokens (194-215)
\* line 196-199: read the clock, start iterating the dict
SweepStart(p) ==
    /\ th[p].pc = "sweep_start"
    /\ th' = [th EXCEPT ![p].pc = "sweep_iter", ![p].ct = now, ![p].expired = <<>>,
                        ![p].isize = Cardinality(DOMAIN valid_tokens)]
    /\ UNCHANGED <<now, ticks, valid_tokens, issued, hist, regVars, catVars, strVars>>

\* The expired list of lines 199-210, in the dict's order.
RECURSIVE expired_from(_, _, _)
expired_from(tokens, pos, t) ==
    IF ~HasNextKey(tokens, pos) THEN <<>>
    ELSE LET k == NextKey(tokens, pos) IN
         (IF token_expired(tokens[k], t) THEN <<k>> ELSE <<>>)
             \o expired_from(tokens, k, t)

\* lines 199-210: the for loop. A dict whose size changed since the iteration
\* began raises RuntimeError.
SweepIter(p) ==
    /\ th[p].pc = "sweep_iter"
    /\ th' = IF Cardinality(DOMAIN valid_tokens) # th[p].isize
             THEN Raise(p, "RuntimeError")
             ELSE [th EXCEPT ![p].pc = "sweep_del",
                             ![p].expired = expired_from(valid_tokens, 0, th[p].ct)]
    /\ UNCHANGED <<now, ticks, valid_tokens, issued, hist, regVars, catVars, strVars>>

\* The store after the deletions of lines 212-213, as far as they get.
RECURSIVE delete_all(_, _)
delete_all(tokens, ks) ==
    IF ks = <<>> \/ Head(ks) \notin DOMAIN tokens THEN tokens
    ELSE delete_all(DelKey(tokens, Head(ks)), Tail(ks))

\* lines 212-215: delete what was collected, return the count. Deleting a key
\* another thread has removed meanwhile raises KeyError.
SweepDel(p) ==
    /\ th[p].pc = "sweep_del"
    /\ valid_tokens' = delete_all(valid_tokens, th[p].expired)
    /\ th' = IF \E i \in 1..Len(th[p].expired) : th[p].expired[i] \notin DOMAIN valid_tokens
             THEN Raise(p, "KeyError")
             ELSE IF th[p].ret = "done"
                  THEN [Finish(p, "swept") EXCEPT ![p].cnt = Len(th[p].expired)]
                  ELSE [th EXCEPT ![p] = [Idle EXCEPT !.pc = th[p].ret, !.op = th[p].op,
                                                      !.tok = th[p].tok]]
    /\ UNCHANGED <<now, ticks, issued, hist, regVars, catVars, strVars>>

\* the maintenance loop's call at line 255
MaintSweep ==
    /\ th[Maint].pc = "idle"
    /\ th' = [th EXCEPT ![Maint].pc = "sweep_start", ![Maint].op = "maintenance",
                        ![Maint].ret = "done"]
    /\ UNCHANGED <<now, ticks, valid_tokens, issued, hist, regVars, catVars, strVars>>

\* ------------------------------------------------------ index (323-345)
\* line 323-327
IndexBegin(p) ==
    /\ p \in Threads
    /\ th[p].pc = "idle"
    /\ \E k \in RequestTokens :
        th' = IF k = NoToken
              THEN [th EXCEPT ![p].pc = "done", ![p].op = "index", ![p].res = "NoToken"]
              ELSE [th EXCEPT ![p].pc = "sweep_start", ![p].op = "index",
                              ![p].tok = k, ![p].ret = "idx_member"]
    /\ UNCHANGED <<now, ticks, valid_tokens, issued, hist, regVars, catVars, strVars>>

\* line 328 (and 345)
IdxMember(p) ==
    /\ th[p].pc = "idx_member"
    /\ th' = IF th[p].tok \in DOMAIN valid_tokens
             THEN [th EXCEPT ![p].pc = "idx_read"]
             ELSE Finish(p, "Invalid")
    /\ UNCHANGED <<now, ticks, valid_tokens, issued, hist, regVars, catVars, strVars>>

\* Does the token_info read at line 329 let the caller in (lines 331-339)?
first_use(info) ==
    IF info.tag = "num" THEN info.value > 0 ELSE info.used_time = None

\* lines 329-339 (and 336, 343)
IdxRead(p) ==
    /\ th[p].pc = "idx_read"
    /\ th' = IF th[p].tok \notin DOMAIN valid_tokens
             THEN Raise(p, "KeyError")
             ELSE IF first_use(valid_tokens[th[p].tok])
                  THEN [th EXCEPT ![p].pc = "idx_write",
                                  ![p].num = (valid_tokens[th[p].tok].tag = "num")]
                  ELSE Finish(p, "AlreadyUsed")
    /\ UNCHANGED <<now, ticks, valid_tokens, issued, hist, regVars, catVars, strVars>>

\* A faulty variant: the use is not recorded.
mark_used_not(tokens, k, num, t) == tokens

\* The store after line 334 or line 341.
mark_used(tokens, k, num, t) ==
    IF num THEN PutKey(tokens, k, Num(-1))
    ELSE [tokens EXCEPT ![k].used_time = Some(t)]

\* lines 333-334 and 340-341: is_secret_mode = True and the write
IdxWrite(p) ==
    /\ th[p].pc = "idx_write"
    /\ LET k == th[p].tok IN
       IF ~th[p].num /\ k \notin DOMAIN valid_tokens
       THEN /\ th' = Raise(p, "KeyError")
            /\ UNCHANGED <<valid_tokens, hist>>
       ELSE /\ valid_tokens' = mark_used(valid_tokens, k, th[p].num, now)
            /\ th' = Finish(p, "Consumed")
            /\ hist' = [hist EXCEPT !.consumed[k] = @ + 1,
                                    !.first_use[k] = IF @ = None THEN Some(now) ELSE @]
    /\ UNCHANGED <<now, ticks, issued, regVars, catVars, strVars>>

\* ------------------------- videos (2419-2425) and video (2427-2433)
\* line 219, reached from line 2423 or 2431
ValMember(p) ==
    /\ p \in Threads
    /\ th[p].pc = "idle"
    /\ \E k \in RequestTokens, h \in {"videos", "video"} :
        th' = IF k = NoToken \/ k \notin DOMAIN valid_tokens
              THEN [th EXCEPT ![p].pc = "done", ![p].op = h, ![p].tok = k,
                              ![p].res = "normal"]
              ELSE [th EXCEPT ![p].pc = "val_read", ![p].op = h, ![p].tok = k]
    /\ UNCHANGED <<now, ticks, valid_tokens, issued, hist, regVars, catVars, strVars>>

\* The catalog of line 2425 (cache_key of line 163) and of line 2433.
catalog_of(is_secret) == IF is_secret THEN "secret" ELSE "normal"

\* A faulty variant: a validation counts as the token's use.
validated_store_consuming(tokens, k, t) ==
    IF k \in DOMAIN tokens /\ tokens[k].tag = "dict" /\ tokens[k].used_time = None
    THEN [tokens EXCEPT ![k].used_time = Some(t)]
    ELSE tokens

\* A faulty variant: the read of line 222 is a setdefault, which puts a missing
\* identifier back.
validated_store_setdefault(tokens, k, t) ==
    IF k \in DOMAIN tokens THEN tokens
    ELSE PutKey(tokens, k, Dict(t + TOKEN_LIFETIME, None))

\* The store after lines 222-238: is_token_valid reads it and writes nothing.
validated_store(tokens, k, t) == tokens

\* lines 222-236, then the catalog is chosen
ValRead(p) ==
    /\ th[p].pc = "val_read"
    /\ th' = IF th[p].tok \notin DOMAIN valid_tokens
             THEN Raise(p, "KeyError")
             ELSE Finish(p, catalog_of(token_info_valid(valid_tokens[th[p].tok], now)))
    /\ valid_tokens' = validated_store(valid_tokens, th[p].tok, now)
    /\ UNCHANGED <<now, ticks, issued, hist, regVars, catVars, strVars>>

\* --------------------------------------------- invalidate_token (1717-1723)
\* lines 1720-1721
InvMember(p) ==
    /\ p \in Threads
    /\ th[p].pc = "idle"
    /\ \E k \in RequestTokens :
        th' = IF k = NoToken \/ k \notin DOMAIN valid_tokens
              THEN [th EXCEPT ![p].pc = "done", ![p].op = "invalidate_token",
                              ![p].tok = k, ![p].res = "204"]
              ELSE [th EXCEPT ![p].pc = "inv_del", ![p].op = "invalidate_token",
                              ![p].tok = k]
    /\ UNCHANGED <<now, ticks, valid_tokens, issued, hist, regVars, catVars, strVars>>

\* line 1722-1723
InvDel(p) ==
    /\ th[p].pc = "inv_del"
    /\ LET k == th[p].tok IN
       IF k \in DOMAIN valid_tokens
       THEN /\ valid_tokens' = DelKey(valid_tokens, k)
            /\ th' = Finish(p, "204")
            /\ hist' = [hist EXCEPT !.invalidated = @ \cup {k}]
       ELSE /\ th' = Raise(p, "KeyError")
            /\ UNCHANGED <<valid_tokens, hist>>
    /\ UNCHANGED <<now, ticks, issued, regVars, catVars, strVars>>

\* the response is sent (or the loop sleeps): the thread takes the next request
Return(p) ==
    /\ th[p].pc = "done"
    /\ th' = [th EXCEPT ![p] = Idle]
    /\ UNCHANGED <<now, ticks, valid_tokens, issued, hist, regVars, catVars, strVars>>


\* ============================================================ the registry
Free == -1                      \* connection_lock is not held
ExistingAddr == 1               \* a client the registry knows at start-up
NewAddr(i) == MAX_CONNECTIONS + i
ReqAddrs == {ExistingAddr} \cup {NewAddr(i) : i \in 1..NewAddrs}
ClientPorts == {50002}
ServerIps == {"192.168.1.2"}
NetIfAddrs == [x \in {"192.168.1.2"} |-> "eth0"]     \* psutil.net_if_addrs()
INTERFACE_CACHE_EXPIRE == 60
NotPlaying == "not playing"     \* the literal of lines 306, 1734
\* the JSON bodies of /update-status
StatusReports == {[video |-> "a.mp4", position |-> 5, duration |-> 60]}

\* seen: len(active_connections) as line 291 read it; res: the JSON answer;
\* snap: connections_snapshot of monitor_data; mon: the body it returns
RIdle == [pc |-> "idle", kind |-> "none", ip |-> 0, port |-> 0, sip |-> "", ret |-> "none",
          seen |-> 0, res |-> "none", snap |-> <<>>, mon |-> <<>>]

\* ------------------------------------------------ dict in insertion order
HasAddr(conns, ip) == \E i \in 1..Len(conns) : conns[i].ip = ip
IndexOf(conns, ip) == CHOOSE i \in 1..Len(conns) : conns[i].ip = ip
MinOf(S) == CHOOSE x \in S : \A y \in S : x <= y

RECURSIVE drop_indices(_, _, _)
drop_indices(conns, D, i) ==
    IF i > Len(conns) THEN <<>>
    ELSE (IF i \in D THEN <<>> ELSE <<conns[i]>>) \o drop_indices(conns, D, i + 1)

\* The positions of the first `count` entries of sorted(..., key=last_seen)
\* (lines 276-278); the sort is stable, so ties keep the dict's order.
RECURSIVE oldest_indices(_, _, _)
oldest_indices(conns, R, count) ==
    IF count = 0 \/ R = {} THEN {}
    ELSE LET m == MinOf({conns[i].last_seen : i \in R})
             i == MinOf({j \in R : conns[j].last_seen = m})
         IN {i} \cup oldest_indices(conns, R \ {i}, count - 1)

\* A faulty variant: eviction starts one session too late.
at_capacity_off_by_one(conns) == Len(conns) > MAX_CONNECTIONS

\* The test of lines 275, 291 and 296.
at_capacity(conns) == Len(conns) >= MAX_CONNECTIONS

\* A faulty variant: the entries go in the dict's order, without the sort of
\* line 276.
cleanup_oldest_unsorted(conns, count) ==
    IF at_capacity(conns)
    THEN drop_indices(conns, 1..count, 1)
    ELSE conns

\* A faulty variant: the slice of line 278 is one entry short.
cleanup_oldest_short(conns, count) ==
    IF at_capacity(conns)
    THEN drop_indices(conns, oldest_indices(conns, 1..Len(conns), count - 1), 1)
    ELSE conns

\* cleanup_oldest_connections, lines 275-279, once the lock is held
cleanup_oldest(conns, count) ==
    IF at_capacity(conns)
    THEN drop_indices(conns, oldest_indices(conns, 1..Len(conns), count), 1)
    ELSE conns

\* get_interface_name, lines 133-151: the cache after the call
iface_after(server_ip, t) ==
    IF t - iface.last_update > INTERFACE_CACHE_EXPIRE
    THEN [cache |-> NetIfAddrs, last_update |-> t, lock |-> iface.lock]
    ELSE iface

\* the name it returns
interface_name(server_ip, t) ==
    LET c == iface_after(server_ip, t).cache
    IN IF server_ip \in DOMAIN c THEN c[server_ip] ELSE "unknown interface"

\* the session of lines 301-312
new_session(ip, port, server_ip, t) ==
    [ip |-> ip, server_ip |-> server_ip, client_port |-> port,
     interface |-> interface_name(server_ip, t), last_seen |-> t,
     video |-> NotPlaying, position |-> 0, duration |-> 0,
     bandwidth_down |-> 0, bandwidth_up |-> 0, connected_at |-> t]

\* A faulty variant: the session is written anew, as at lines 301-312.
touch_session_reset(conns, ip, port, t) ==
    [conns EXCEPT ![IndexOf(conns, ip)] =
        new_session(ip, port, conns[IndexOf(conns, ip)].server_ip, t)]

\* lines 314-315
touch_session(conns, ip, port, t) ==
    [conns EXCEPT ![IndexOf(conns, ip)].last_seen = t,
                  ![IndexOf(conns, ip)].client_port = port]

\* a session known at start-up: tracked a little before the clock's first value
OldSession(i) ==
    [ip |-> i, server_ip |-> "192.168.1.2", client_port |-> 50001,
     interface |-> "eth0", last_seen |-> Epoch - (i % 3),
     video |-> NotPlaying, position |-> 0, duration |-> 0,
     bandwidth_down |-> 0, bandwidth_up |-> 0, connected_at |-> Epoch - 3]

\* the registry after construction
InitRegistry ==
    /\ active_connections = <<>>
    /\ connection_lock = Free
    /\ rt = [p \in Threads |-> RIdle]
    /\ maint = [connection_count |-> 0, sleep_time |-> 0, wake_at |-> Epoch, cycles |-> 0,
                caught |-> FALSE]
    /\ requests = 0
    /\ iface = [cache |-> <<>>, last_update |-> 0, lock |-> Free]

\* the registry after n earlier clients were tracked
InitSizes == {0, 11, MAX_CONNECTIONS - 1, MAX_CONNECTIONS}

InitRegistryFilled ==
    /\ \E n \in InitSizes : active_connections = [i \in 1..n |-> OldSession(i)]
    /\ connection_lock = Free
    /\ rt = [p \in Threads |-> RIdle]
    /\ maint = [connection_count |-> 0, sleep_time |-> 0, wake_at |-> Epoch, cycles |-> 0,
                caught |-> FALSE]
    /\ requests = 0
    /\ iface = [cache |-> NetIfAddrs, last_update |-> Epoch - 3, lock |-> Free]

RegTickSteps == {CONNECTION_TIMEOUT}

RegTick ==
    /\ ticks < MaxTicks
    /\ \E d \in RegTickSteps : now' = now + d
    /\ ticks' = ticks + 1
    /\ UNCHANGED <<tokVars, regVars, catVars, strVars>>

\* what follows track_connection: the route's handler
AfterTrack(p) == IF rt[p].kind = "update-status" THEN "upd_lock" ELSE "idle"

\* ---------------------------------------------- track_connection (281-315)
\* lines 287-292: a request arrives; the unlocked test of line 291
TrkCheck(p) ==
    /\ rt[p].pc = "idle"
    /\ requests < MaxRequests
    /\ requests' = requests + 1
    /\ \E kind \in {"page", "update-status"}, ip \in ReqAddrs,
          port \in ClientPorts, sip \in ServerIps :
        rt' = [rt EXCEPT ![p] =
                 IF ~HasAddr(active_connections, ip) /\ at_capacity(active_connections)
                 THEN [pc |-> "co_lock", kind |-> kind, ip |-> ip, port |-> port,
                       sip |-> sip, ret |-> "trk_lock",
                       seen |-> Len(active_connections), res |-> "none",
                       snap |-> <<>>, mon |-> <<>>]
                 ELSE [pc |-> "trk_lock", kind |-> kind, ip |-> ip, port |-> port,
                       sip |-> sip, ret |-> "none",
                       seen |-> Len(active_connections), res |-> "none",
                       snap |-> <<>>, mon |-> <<>>]]
    /\ UNCHANGED <<now, ticks, tokVars, active_connections, connection_lock, maint, iface, catVars, strVars>>

\* lines 299-312, and the lock's release at the end of the with block
TrkInsert(p) ==
    /\ active_connections' = Append(active_connections,
                                    new_session(rt[p].ip, rt[p].port, rt[p].sip, now))
    /\ iface' = iface_after(rt[p].sip, now)
    /\ connection_lock' = Free
    /\ rt' = [rt EXCEPT ![p] = [RIdle EXCEPT !.pc = AfterTrack(p), !.kind = rt[p].kind,
                                             !.ip = rt[p].ip]]

\* lines 294-315: the with block. Where it calls cleanup_oldest_connections
\* (line 297) the thread holds connection_lock and waits for it.
TrkEnter(p) ==
    /\ rt[p].pc = "trk_lock"
    /\ connection_lock = Free
    /\ IF HasAddr(active_connections, rt[p].ip)
       THEN /\ active_connections' = touch_session(active_connections, rt[p].ip,
                                                   rt[p].port, now)
            /\ rt' = [rt EXCEPT ![p] = [RIdle EXCEPT !.pc = AfterTrack(p),
                                                     !.kind = rt[p].kind, !.ip = rt[p].ip]]
            /\ UNCHANGED <<connection_lock, iface>>
       ELSE IF at_capacity(active_connections)
            THEN /\ connection_lock' = p
                 /\ rt' = [rt EXCEPT ![p].pc = "co_lock", ![p].ret = "trk_insert"]
                 /\ UNCHANGED <<active_connections, iface>>
            ELSE TrkInsert(p)
    /\ UNCHANGED <<now, ticks, tokVars, maint, requests, catVars, strVars>>

\* cleanup_oldest_connections (272-279): threading.Lock is not reentrant, so
\* the with of line 274 waits until no thread holds the lock, the caller
\* included.
CleanupOldest(p) ==
    /\ rt[p].pc = "co_lock"
    /\ connection_lock = Free
    /\ IF rt[p].ret = "trk_insert"
       THEN /\ active_connections' =
                   Append(cleanup_oldest(active_connections, CLEANUP_COUNT),
                          new_session(rt[p].ip, rt[p].port, rt[p].sip, now))
            /\ iface' = iface_after(rt[p].sip, now)
            /\ rt' = [rt EXCEPT ![p] = [RIdle EXCEPT !.pc = AfterTrack(p),
                                                     !.kind = rt[p].kind, !.ip = rt[p].ip]]
       ELSE /\ active_connections' = cleanup_oldest(active_connections, CLEANUP_COUNT)
            /\ rt' = [rt EXCEPT ![p].pc = "trk_lock", ![p].ret = "none"]
            /\ UNCHANGED iface
    /\ UNCHANGED <<now, ticks, tokVars, connection_lock, maint, requests, catVars, strVars>>

\* ------------------------------------------------- update_status (1725-1740)
\* A faulty variant: a report from an address without a session creates one.
merge_status_upsert(conns, ip, data, t) ==
    IF HasAddr(conns, ip)
    THEN [conns EXCEPT ![IndexOf(conns, ip)].video = data.video,
                       ![IndexOf(conns, ip)].position = data.position,
                       ![IndexOf(conns, ip)].duration = data.duration,
                       ![IndexOf(conns, ip)].last_seen = t]
    ELSE Append(conns, [new_session(ip, 0, "", t) EXCEPT !.video = data.video])

\* lines 1731-1738
merge_status(conns, ip, data, t) ==
    IF HasAddr(conns, ip)
    THEN [conns EXCEPT ![IndexOf(conns, ip)].video = data.video,
                       ![IndexOf(conns, ip)].position = data.position,
                       ![IndexOf(conns, ip)].duration = data.duration,
                       ![IndexOf(conns, ip)].last_seen = t]
    ELSE conns

UpdateStatus(p) ==
    /\ rt[p].pc = "upd_lock"
    /\ connection_lock = Free
    /\ \E data \in StatusReports :
        active_connections' = merge_status(active_connections, rt[p].ip, data, now)
    /\ rt' = [rt EXCEPT ![p] = [RIdle EXCEPT !.res = "success", !.ip = rt[p].ip]]
    /\ UNCHANGED <<now, ticks, tokVars, connection_lock, maint, requests, iface, catVars, strVars>>

\* ------------------------------------- cleanup_expired_connections (240-270)
\* A faulty variant: a session is dropped at an age of CONNECTION_TIMEOUT, not
\* beyond it.
evict_expired_at_timeout(conns, t) ==
    SelectSeq(conns, LAMBDA c : ~(t - c.last_seen >= CONNECTION_TIMEOUT))

\* lines 248-253
evict_expired(conns, t) ==
    SelectSeq(conns, LAMBDA c : ~(t - c.last_seen > CONNECTION_TIMEOUT))

\* A faulty variant: the thresholds are tested with >=.
sleep_time_for_ge(connection_count) ==
    IF connection_count >= 50 THEN 30
    ELSE IF connection_count >= 10 THEN 60
    ELSE IF connection_count >= 0 THEN 120
    ELSE 300

\* lines 258-265
sleep_time_for(connection_count) ==
    IF connection_count > 50 THEN 30
    ELSE IF connection_count > 10 THEN 60
    ELSE IF connection_count > 0 THEN 120
    ELSE 300

\* one cycle of the loop, once the previous sleep is over: lines 244-267
MaintCycle ==
    /\ now >= maint.wake_at
    /\ connection_lock = Free
    /\ active_connections' = evict_expired(active_connections, now)
    /\ maint' = [connection_count |-> Len(active_connections),
                 sleep_time |-> sleep_time_for(Len(active_connections)),
                 wake_at |-> now + sleep_time_for(Len(active_connections)),
                 cycles |-> 1, caught |-> FALSE]
    /\ UNCHANGED <<now, ticks, tokVars, connection_lock, rt, requests, iface, catVars, strVars>>

RegStep(p) ==
    \/ TrkCheck(p)
    \/ TrkEnter(p)
    \/ CleanupOldest(p)
    \/ UpdateStatus(p)

RegNext ==
    \/ RegTick
    \/ MaintCycle
    \/ \E p \in Threads : RegStep(p)


\* ------------------------------------------------ monitor_data (2375-2417)
\* lines 2387-2399: one new dict per session, built from the session's fields
connections_snapshot(conns) ==
    [i \in 1..Len(conns) |->
        [client_ip |-> conns[i].ip, client_port |-> conns[i].client_port,
         server_ip |-> conns[i].server_ip, interface |-> conns[i].interface,
         video |-> conns[i].video, position |-> conns[i].position,
         duration |-> conns[i].duration, bandwidth_down |-> conns[i].bandwidth_down,
         bandwidth_up |-> conns[i].bandwidth_up, last_seen |-> conns[i].last_seen]]

\* the addresses of get_all_ip_addresses (2506-2527), as line 2402 gets them
AccessAddrs ==
    <<[interface |-> "loopback", ip |-> "127.0.0.1"],
      [interface |-> "loopback", ip |-> "localhost"],
      [interface |-> NetIfAddrs["192.168.1.2"], ip |-> "192.168.1.2"]>>

\* A faulty variant: the body is built from the registry as it is when the
\* response is serialized.
monitor_response_live(snapshot) ==
    [active_count |-> Len(snapshot), total_clients |-> Len(snapshot),
     connections |-> connections_snapshot(active_connections),
     access_urls |-> AccessAddrs]

\* lines 2402-2417: the JSON body
monitor_response(snapshot) ==
    [active_count |-> Len(snapshot), total_clients |-> Len(snapshot),
     connections |-> snapshot,
     access_urls |-> AccessAddrs]

\* lines 2379-2386: track_connection returned at once (lines 284-285); the
\* credentials are tested, then connection_lock is taken
MonLock(p) ==
    /\ rt[p].pc = "idle"
    /\ requests < MaxRequests
    /\ requests' = requests + 1
    /\ \E authorized \in BOOLEAN :
        IF ~authorized
        THEN /\ rt' = [rt EXCEPT ![p] = [RIdle EXCEPT !.kind = "monitor-data",
                                                      !.res = "401"]]
             /\ UNCHANGED connection_lock
        ELSE /\ connection_lock = Free
             /\ connection_lock' = p
             /\ rt' = [rt EXCEPT ![p] = [RIdle EXCEPT !.pc = "mon_copy",
                                                      !.kind = "monitor-data"]]
    /\ UNCHANGED <<now, ticks, tokVars, active_connections, maint, iface, catVars, strVars>>

\* lines 2386-2399: the loop under the lock, and the lock's release
MonCopy(p) ==
    /\ rt[p].pc = "mon_copy"
    /\ rt' = [rt EXCEPT ![p].pc = "mon_reply",
                        ![p].snap = connections_snapshot(active_connections)]
    /\ connection_lock' = Free
    /\ UNCHANGED <<now, ticks, tokVars, active_connections, maint, requests, iface, catVars, strVars>>

\* lines 2402-2417: the addresses are listed and the body is serialized
MonReply(p) ==
    /\ rt[p].pc = "mon_reply"
    /\ rt' = [rt EXCEPT ![p] = [RIdle EXCEPT !.kind = "monitor-data", !.res = "200",
                                             !.snap = rt[p].snap,
                                             !.mon = monitor_response(rt[p].snap)]]
    /\ UNCHANGED <<now, ticks, tokVars, active_connections, connection_lock, maint, requests, iface, catVars, strVars>>

\* the registry's threads and /monitor-data requests among them
MonNext ==
    \/ RegNext
    \/ \E p \in Threads : MonLock(p) \/ MonCopy(p) \/ MonReply(p)


\* ======================================================= the catalog cache
VIDEO_CACHE_EXPIRE == 300
Catalogs == {"normal", "secret"}
\* files of a tree, in os.walk's order: the directory (relative to the root),
\* the name and the extension as written
F1 == [dir |-> ".", file |-> "a.mp4", ext |-> ".mp4"]
F2 == [dir |-> "sub", file |-> "b.MKV", ext |-> ".MKV"]
F3 == [dir |-> ".", file |-> "notes.txt", ext |-> ".txt"]
Trees == {<<F3>>, <<F1, F3>>, <<F1, F2>>}
\* a catalog root: a directory with its tree, or nothing at that path
Dir(tree) == [exists |-> TRUE, tree |-> tree]
Missing == [exists |-> FALSE, tree |-> <<>>]
DirStates == {Missing} \cup {Dir(t) : t \in Trees}

\* str.lower() on the extensions that occur
Lower(ext) == IF ext = ".MKV" THEN ".mkv" ELSE ext
MediaExts == {".mp4", ".webm", ".ogg", ".mkv", ".rmvb", ".avi", ".flv", ".mov", ".wmv"}

\* lines 184-186: the relative path, as its components
rel_file(f) == IF f.dir # "." THEN <<f.dir, f.file>> ELSE <<f.file>>

\* lines 181-186: the scan of an existing root
RECURSIVE scan(_)
scan(tree) ==
    IF tree = <<>> THEN <<>>
    ELSE (IF Lower(Head(tree).ext) \in MediaExts THEN <<rel_file(Head(tree))>> ELSE <<>>)
             \o scan(Tail(tree))

\* the test of line 168: is the call answered from the cache?
cache_hit(cache_data, force_refresh, t) ==
    /\ ~force_refresh
    /\ cache_data.files # <<>>
    /\ (t - cache_data.last_update) < VIDEO_CACHE_EXPIRE

LIdle == [pc |-> "idle", key |-> "normal", force |-> FALSE, ct |-> 0, files |-> <<>>,
          missing |-> FALSE, res |-> <<>>]

InitCatalog ==
    /\ video_list_cache = [c \in Catalogs |-> [files |-> <<>>, last_update |-> 0]]
    /\ fs = [c \in Catalogs |-> Dir(<<F1, F3>>)]
    /\ lt = [p \in Threads |-> LIdle]
    /\ cat_hist = [src |-> [c \in Catalogs |-> "none"], lists |-> 0, changes |-> 0,
                   scans |-> {}]

CatTickSteps == {1, VIDEO_CACHE_EXPIRE - 1}

CatTick ==
    /\ ticks < MaxTicks
    /\ \E d \in CatTickSteps : now' = now + d
    /\ ticks' = ticks + 1
    /\ UNCHANGED <<tokVars, regVars, catVars, strVars>>

\* files appear and disappear, a root is removed or created
FsChange ==
    /\ cat_hist.changes < MaxFsChanges
    /\ \E c \in Catalogs, d \in DirStates :
        /\ d # fs[c]
        /\ fs' = [fs EXCEPT ![c] = d]
    /\ cat_hist' = [cat_hist EXCEPT !.changes = @ + 1]
    /\ UNCHANGED <<now, ticks, tokVars, regVars, video_list_cache, lt, strVars>>

\* ------------------------------------------------ get_video_list (161-192)
\* lines 163-169
ListCheck(p) ==
    /\ lt[p].pc = "idle"
    /\ cat_hist.lists < MaxLists
    /\ \E is_secret \in BOOLEAN, force_refresh \in BOOLEAN :
        LET cache_key == catalog_of(is_secret)
            cache_data == video_list_cache[cache_key]
        IN lt' = [lt EXCEPT ![p] =
                    IF cache_hit(cache_data, force_refresh, now)
                    THEN [LIdle EXCEPT !.pc = "done", !.key = cache_key,
                                       !.force = force_refresh, !.res = cache_data.files]
                    ELSE [LIdle EXCEPT !.pc = "scan", !.key = cache_key,
                                       !.force = force_refresh, !.ct = now]]
    /\ cat_hist' = [cat_hist EXCEPT !.lists = @ + 1]
    /\ UNCHANGED <<now, ticks, tokVars, regVars, video_list_cache, fs, strVars>>

\* lines 172-186: the root is tested and walked
ListScan(p) ==
    /\ lt[p].pc = "scan"
    /\ lt' = [lt EXCEPT ![p].pc = "store",
                        ![p].missing = ~fs[lt[p].key].exists,
                        ![p].files = IF ~fs[lt[p].key].exists THEN <<>>
                                     ELSE scan(fs[lt[p].key].tree)]
    /\ cat_hist' = [cat_hist EXCEPT
                       !.scans = @ \cup {[key |-> lt[p].key, ct |-> lt[p].ct,
                                          files |-> IF ~fs[lt[p].key].exists THEN <<>>
                                                    ELSE scan(fs[lt[p].key].tree)]}]
    /\ UNCHANGED <<now, ticks, tokVars, regVars, video_list_cache, fs, strVars>>

\* A faulty variant: the list is stored, the timestamp is left as it was.
store_snapshot_files_only(cache, key, files, ct) ==
    [cache EXCEPT ![key].files = files]

\* lines 176-178 and 188-190: both fields are written under video_cache_lock
store_snapshot(cache, key, files, ct) ==
    [cache EXCEPT ![key] = [files |-> files, last_update |-> ct]]

\* lines 176-179 and 188-192: the snapshot is replaced, the list returned
ListStore(p) ==
    /\ lt[p].pc = "store"
    /\ video_list_cache' = store_snapshot(video_list_cache, lt[p].key, lt[p].files,
                                          lt[p].ct)
    /\ cat_hist' = [cat_hist EXCEPT
                       !.src[lt[p].key] = IF lt[p].missing THEN "missing" ELSE "scan"]
    /\ lt' = [lt EXCEPT ![p] = [LIdle EXCEPT !.pc = "done", !.key = lt[p].key,
                                             !.force = lt[p].force, !.res = lt[p].files]]
    /\ UNCHANGED <<now, ticks, tokVars, regVars, fs, strVars>>

ListReturn(p) ==
    /\ lt[p].pc = "done"
    /\ lt' = [lt EXCEPT ![p] = LIdle]
    /\ UNCHANGED <<now, ticks, tokVars, regVars, video_list_cache, fs, cat_hist, strVars>>

CatStep(p) ==
    \/ ListCheck(p)
    \/ ListScan(p)
    \/ ListStore(p)
    \/ ListReturn(p)

CatNext ==
    \/ CatTick
    \/ FsChange
    \/ \E p \in Threads : CatStep(p)

\* ============================================================ /video
CHUNK_SIZE == 65536
Digits == <<"0", "1", "2", "3", "4", "5", "6", "7", "8", "9">>
IsDigit(c) == \E i \in 1..10 : Digits[i] = c
DigitValue(c) == (CHOOSE i \in 1..10 : Digits[i] = c) - 1

\* str(n) for n >= 0
RECURSIVE Dec(_)
Dec(n) == IF n < 10 THEN <<Digits[n + 1]>> ELSE Dec(n \div 10) \o <<Digits[(n % 10) + 1]>>

BytesEq == <<"b", "y", "t", "e", "s", "=">>

\* the Range headers a player sends: bytes=A-B, either bound optional
RangeHeader(a, b) ==
    BytesEq \o (IF a = None THEN <<>> ELSE Dec(a[1])) \o <<"-">>
            \o (IF b = None THEN <<>> ELSE Dec(b[1]))

StartsWith(str, pre) == Len(str) >= Len(pre) /\ SubSeq(str, 1, Len(pre)) = pre

\* str.replace(old, '')
RECURSIVE Remove(_, _)
Remove(str, old) ==
    IF str = <<>> THEN <<>>
    ELSE IF StartsWith(str, old) THEN Remove(SubSeq(str, Len(old) + 1, Len(str)), old)
    ELSE <<Head(str)>> \o Remove(Tail(str), old)

\* str.split(sep) for a one-character sep
RECURSIVE Split(_, _)
Split(str, sep) ==
    IF \A i \in 1..Len(str) : str[i] # sep THEN <<str>>
    ELSE LET i == MinOf({j \in 1..Len(str) : str[j] = sep})
         IN <<SubSeq(str, 1, i - 1)>> \o Split(SubSeq(str, i + 1, Len(str)), sep)

\* int(str) on a string of decimal digits
RECURSIVE ParseInt(_)
ParseInt(str) ==
    IF Len(str) = 1 THEN DigitValue(str[1])
    ELSE 10 * ParseInt(SubSeq(str, 1, Len(str) - 1)) + DigitValue(str[Len(str)])

Max(a, b) == IF a >= b THEN a ELSE b
Min(a, b) == IF a <= b THEN a ELSE b

\* the file's bytes, by offset
ByteAt(offset) == (offset * 7 + 3) % 256
FileBytes(size) == [i \in 1..size |-> ByteAt(i - 1)]

\* A faulty variant: one read, no loop.
full_chunks_one_read(size, offset) ==
    IF offset >= size THEN <<>>
    ELSE <<[i \in 1..Min(CHUNK_SIZE, size - offset) |-> ByteAt(offset + i - 1)]>>

\* generate_full (2456-2466): the chunks read until end of file
RECURSIVE full_chunks(_, _)
full_chunks(size, offset) ==
    IF offset >= size THEN <<>>
    ELSE <<[i \in 1..Min(CHUNK_SIZE, size - offset) |-> ByteAt(offset + i - 1)]>>
             \o full_chunks(size, offset + Min(CHUNK_SIZE, size - offset))

\* generate_full when f.read (or open) raises IOError at read number fail_at,
\* counted from 0: the chunks read before it were yielded, the except of line
\* 2465 yields b'' and the generator ends
generate_full(size, fail_at) ==
    IF fail_at = None THEN full_chunks(size, 0)
    ELSE SubSeq(full_chunks(size, 0), 1, fail_at[1]) \o << <<>> >>

\* A faulty variant: no except clause, the error leaves the generator.
stream_fault_uncaught(fail_at) == IF fail_at = None THEN "" ELSE "IOError"

\* The exception that leaves generate_full: none, IOError is caught at line 2465
stream_fault(fail_at) == ""

\* generate_range (2489-2490) has a docstring and no statement: the call of
\* line 2492 returns None, and a response built from None has an empty body
range_chunks(size, byte1, length) == <<>>

\* line 2496: f'bytes {byte1}-{byte2}/{size}'
content_range_text(byte1, byte2, size) ==
    <<"b", "y", "t", "e", "s", " ">> \o Dec(byte1) \o <<"-">> \o Dec(byte2)
        \o <<"/">> \o Dec(size)

\* does int(str) return: str is a non-empty string of decimal digits
IsDecimal(str) == str # <<>> /\ \A i \in 1..Len(str) : IsDigit(str[i])

\* lines 2480-2483: the exception the parse of m raises, if any. int() raises
\* ValueError on a part that is not a number, m[1] raises IndexError when the
\* value had no '-'; no try encloses them and a route's exception ends the
\* request with a 500
range_fault(m) ==
    IF m[1] # <<>> /\ ~IsDecimal(m[1]) THEN "ValueError"
    ELSE IF Len(m) < 2 THEN "IndexError"
    ELSE IF m[2] # <<>> /\ ~IsDecimal(m[2]) THEN "ValueError"
    ELSE ""

\* A faulty variant: the start is not clamped to the file (line 2485 left out).
range_start_unclamped(m, size) ==
    IF m[1] # <<>> THEN ParseInt(m[1]) ELSE 0

\* lines 2478-2486
range_start(m, size) ==
    Max(0, Min(IF m[1] # <<>> THEN ParseInt(m[1]) ELSE 0, size - 1))

\* A faulty variant: a missing end is read as offset 0, not as the last byte.
range_end_no_default(m, size) ==
    Max(range_start(m, size), Min(IF m[2] # <<>> THEN ParseInt(m[2]) ELSE 0, size - 1))

range_end(m, size) ==
    Max(range_start(m, size), Min(IF m[2] # <<>> THEN ParseInt(m[2]) ELSE size - 1, size - 1))

\* A faulty variant: the test of line 2436 is made only on the path without a
\* Range header.
video_unchecked_range(is_file, size, range_header) ==
    IF ~is_file /\ range_header = None
    THEN [status |-> 404, content_range |-> <<>>, content_range_text |-> <<>>,
          content_length |-> -1, accept_ranges |-> "", body |-> <<>>, stream_fault |-> "",
          fault |-> ""]
    ELSE [status |-> 206, content_range |-> <<0, 0, size>>,
          content_range_text |-> content_range_text(0, 0, size), content_length |-> 1,
          accept_ranges |-> "bytes", body |-> <<>>, stream_fault |-> "",
          fault |-> ""]

\* the route, lines 2436-2500
video(is_file, size, range_header) ==
    IF ~is_file
    THEN [status |-> 404, content_range |-> <<>>, content_range_text |-> <<>>,
          content_length |-> -1, accept_ranges |-> "", body |-> <<>>, stream_fault |-> "",
          fault |-> ""]
    ELSE IF range_header = None
    THEN [status |-> 200, content_range |-> <<>>, content_range_text |-> <<>>,
          content_length |-> size, accept_ranges |-> "bytes",
          body |-> full_chunks(size, 0), stream_fault |-> "",
          fault |-> ""]
    ELSE LET m == Split(Remove(range_header, BytesEq), "-") IN
         IF range_fault(m) # ""
         THEN [status |-> 500, content_range |-> <<>>, content_range_text |-> <<>>,
               content_length |-> -1, accept_ranges |-> "", body |-> <<>>,
               stream_fault |-> "", fault |-> range_fault(m)]
         ELSE
         LET byte1 == range_start(m, size)
             byte2 == range_end(m, size)
             length == byte2 - byte1 + 1
         IN [status |-> 206, content_range |-> <<byte1, byte2, size>>,
             content_range_text |-> content_range_text(byte1, byte2, size),
             content_length |-> length, accept_ranges |-> "bytes",
             body |-> range_chunks(size, byte1, length), stream_fault |-> "",
          fault |-> ""]

Bounds == {None} \cup {Some(n) : n \in 0..MaxSize}
\* file sizes: the small ones, and sizes at and beyond one and two chunks
FileSizes == (0..MaxSize) \cup {CHUNK_SIZE, CHUNK_SIZE + 1, 2 * CHUNK_SIZE + MaxSize}
\* the read of the file that fails, if one does
FailAts == {None} \cup {Some(n) : n \in 0..3}
\* Range header values a player does not send: no '-', no value, a bound
\* that is not a number, several ranges, another unit, three parts
OtherHeaders ==
    { BytesEq \o <<"5">>,
      BytesEq,
      BytesEq \o <<"a", "b", "c", "-">>,
      BytesEq \o <<"0", "-", "x">>,
      BytesEq \o <<"0", "-", "1", ",", "3", "-", "4">>,
      <<"i", "t", "e", "m", "s", "=", "0", "-", "1">>,
      BytesEq \o <<"0", "-", "1", "-", "2">> }
NoRequest == [is_file |-> FALSE, size |-> 0, a |-> None, b |-> None, ranged |-> FALSE,
              fail_at |-> None, raw |-> None]
NoResponse == [status |-> 0, content_range |-> <<>>, content_range_text |-> <<>>,
               content_length |-> -1, accept_ranges |-> "", body |-> <<>>, stream_fault |-> "",
          fault |-> ""]

\* no /video request yet
InitStream ==
    /\ sreq = NoRequest
    /\ sresp = NoResponse

\* a /video request has arrived: is the path a file, how long is it, and which
\* Range header, if any, does the request carry
InitStreamRequest ==
    /\ \E is_file \in BOOLEAN, size \in FileSizes, ranged \in BOOLEAN,
          a \in Bounds, b \in Bounds, fail_at \in FailAts,
          raw \in {None} \cup OtherHeaders :
        /\ ~is_file => size = 0
        /\ ~ranged => (a = None /\ b = None)
        /\ fail_at # None =>
              (is_file /\ ~ranged /\ fail_at[1] <= Len(full_chunks(size, 0)))
        /\ raw # None => (is_file /\ ~ranged /\ fail_at = None /\ size \in {0, MaxSize})
        /\ sreq = [is_file |-> is_file, size |-> size, a |-> a, b |-> b, ranged |-> ranged,
                   fail_at |-> fail_at, raw |-> raw]
    /\ sresp = NoResponse

\* GET /video/<filename> is answered, and the body generator is run to its end
Video ==
    /\ sresp = NoResponse
    /\ sresp' = LET r == video(sreq.is_file, sreq.size,
                               IF sreq.raw # None THEN sreq.raw
                               ELSE IF sreq.ranged THEN RangeHeader(sreq.a, sreq.b)
                               ELSE None)
                IN IF r.status = 200
                   THEN [r EXCEPT !.body = generate_full(sreq.size, sreq.fail_at),
                                  !.stream_fault = stream_fault(sreq.fail_at)]
                   ELSE r
    /\ UNCHANGED <<now, ticks, tokVars, regVars, catVars, sreq>>

StreamNext == Video

\* ==================================================== the specifications
Init == InitClock /\ InitTokens /\ InitRegistry /\ InitCatalog /\ InitStream

Step(p) ==
    \/ VerifySecret(p)
    \/ IndexBegin(p)
    \/ SweepStart(p)
    \/ SweepIter(p)
    \/ SweepDel(p)
    \/ IdxMember(p)
    \/ IdxRead(p)
    \/ IdxWrite(p)
    \/ ValMember(p)
    \/ ValRead(p)
    \/ InvMember(p)
    \/ InvDel(p)
    \/ Return(p)

Next ==
    \/ Tick
    \/ MaintSweep
    \/ \E p \in Procs : Step(p)

Spec == Init /\ [][Next]_vars

\* One handler at a time: a thread moves only while every other is idle.
OthersIdle(p) == \A q \in Procs \ {p} : th[q].pc = "idle"

SeqNext ==
    \/ Tick
    \/ OthersIdle(Maint) /\ MaintSweep
    \/ \E p \in Procs : OthersIdle(p) /\ Step(p)

SeqSpec == Init /\ [][SeqNext]_vars

RegInit == InitClock /\ InitTokens /\ InitRegistryFilled /\ InitCatalog /\ InitStream

RegSpec == RegInit /\ [][RegNext]_vars

MonSpec == RegInit /\ [][MonNext]_vars

\* The maintenance thread is a thread of its own (line 2705): once its sleep
\* is over and connection_lock can be taken, its cycle runs.
RegFairSpec == RegSpec /\ WF_vars(MaintCycle)

\* The registry with one request at a time: a request's track_connection and
\* handler run to their end before another request or a maintenance cycle.
RegOthersIdle(p) == \A q \in Threads \ {p} : rt[q].pc = "idle"

RegSeqNext ==
    \/ RegTick
    \/ (\A q \in Threads : rt[q].pc = "idle") /\ MaintCycle
    \/ \E p \in Threads : RegOthersIdle(p) /\ RegStep(p)

RegSeqSpec == RegInit /\ [][RegSeqNext]_vars

\* ------------------- the maintenance loop, step by step (lines 240-270)
\* A faulty variant: the except branch does not sleep.
after_cycle_no_sleep(res, connection_count) ==
    IF res = "swept" THEN sleep_time_for(connection_count) ELSE 0

\* The sleep that ends a cycle: the one of line 267 when the try block has
\* run to its end, the one of line 270 when an exception left it.
after_cycle(res, connection_count) ==
    IF res = "swept" THEN sleep_time_for(connection_count) ELSE 60

\* lines 244-255: the previous sleep is over; evict under the lock, then
\* call clean_expired_tokens
LoopBegin ==
    /\ th[Maint].pc = "idle"
    /\ now >= maint.wake_at
    /\ connection_lock = Free
    /\ active_connections' = evict_expired(active_connections, now)
    /\ maint' = [maint EXCEPT !.connection_count = Len(active_connections)]
    /\ th' = [th EXCEPT ![Maint].pc = "sweep_start", ![Maint].op = "maintenance",
                        ![Maint].ret = "done"]
    /\ UNCHANGED <<now, ticks, valid_tokens, issued, hist, connection_lock, rt,
                   requests, iface, catVars, strVars>>

\* lines 257-270: time.sleep begins; the loop goes round when it is over
LoopSleep ==
    /\ th[Maint].pc = "done"
    /\ maint' = [connection_count |-> maint.connection_count,
                 sleep_time |-> after_cycle(th[Maint].res, maint.connection_count),
                 wake_at |-> now + after_cycle(th[Maint].res, maint.connection_count),
                 cycles |-> 1, caught |-> th[Maint].res # "swept"]
    /\ th' = [th EXCEPT ![Maint] = Idle]
    /\ UNCHANGED <<now, ticks, valid_tokens, issued, hist, active_connections,
                   connection_lock, rt, requests, iface, catVars, strVars>>

\* The loop beside a request thread that issues, consumes, validates and
\* invalidates tokens.
LoopRacers == {1}

MaintNext ==
    \/ Tick
    \/ RegTick
    \/ LoopBegin
    \/ SweepStart(Maint)
    \/ SweepIter(Maint)
    \/ SweepDel(Maint)
    \/ LoopSleep
    \/ \E p \in LoopRacers : Step(p)

MaintSpec == RegInit /\ [][MaintNext]_vars

\* The loop after a burst of requests at start-up: a thread is issued a
\* token, then requests are tracked (track_connection runs before every
\* request), all before the clock moves and the loop's first cycle begins.
BurstInit == RegInit /\ Len(active_connections) = MAX_CONNECTIONS - 1

LoopStarted == ticks > 0 \/ th[Maint].pc # "idle" \/ maint.cycles > 0

SweepNext ==
    \/ Tick
    \/ LoopBegin
    \/ SweepStart(Maint)
    \/ SweepIter(Maint)
    \/ SweepDel(Maint)
    \/ LoopSleep
    \/ ~LoopStarted /\ requests = 0 /\ (\E p \in LoopRacers : VerifySecret(p) \/ Return(p))
    \/ ~LoopStarted /\ \E p \in Threads : RegStep(p)

\* The maintenance thread is scheduled fairly: each of its steps is taken
\* once it can be.
SweepFairSpec ==
    /\ BurstInit /\ [][SweepNext]_vars
    /\ WF_vars(LoopBegin) /\ WF_vars(LoopSleep)
    /\ WF_vars(SweepStart(Maint)) /\ WF_vars(SweepIter(Maint)) /\ WF_vars(SweepDel(Maint))

\* ------------- track_connection, lock by lock (lines 294-315, 133-151)
\* line 294: connection_lock is taken; lines 295-296 and 313-315 under it
LkWith(p) ==
    /\ rt[p].pc = "trk_lock"
    /\ connection_lock = Free
    /\ IF HasAddr(active_connections, rt[p].ip)
       THEN /\ active_connections' = touch_session(active_connections, rt[p].ip,
                                                   rt[p].port, now)
            /\ rt' = [rt EXCEPT ![p] = [RIdle EXCEPT !.pc = AfterTrack(p),
                                                     !.kind = rt[p].kind, !.ip = rt[p].ip]]
            /\ UNCHANGED connection_lock
       ELSE /\ connection_lock' = p
            /\ rt' = IF at_capacity(active_connections)
                     THEN [rt EXCEPT ![p].pc = "co_lock", ![p].ret = "trk_insert"]
                     ELSE [rt EXCEPT ![p].pc = "lk_iface"]
            /\ UNCHANGED active_connections
    /\ UNCHANGED <<now, ticks, tokVars, maint, requests, iface, catVars, strVars>>

\* line 299 calls get_interface_name: lines 136-149, interface_cache_lock is
\* taken and the cache rebuilt if it is stale
LkIfaceAcquire(p) ==
    /\ rt[p].pc = "lk_iface"
    /\ iface.lock = Free
    /\ iface' = [iface_after(rt[p].sip, now) EXCEPT !.lock = p]
    /\ rt' = [rt EXCEPT ![p].pc = "lk_iface_held"]
    /\ UNCHANGED <<now, ticks, tokVars, active_connections, connection_lock, maint,
                   requests, catVars, strVars>>

\* line 151: get_interface_name returns, interface_cache_lock is released
LkIfaceRelease(p) ==
    /\ rt[p].pc = "lk_iface_held"
    /\ iface' = [iface EXCEPT !.lock = Free]
    /\ rt' = [rt EXCEPT ![p].pc = "lk_insert"]
    /\ UNCHANGED <<now, ticks, tokVars, active_connections, connection_lock, maint,
                   requests, catVars, strVars>>

\* lines 301-312: the session is stored, the with block of line 294 ends
LkInsert(p) ==
    /\ rt[p].pc = "lk_insert"
    /\ active_connections' = Append(active_connections,
                                    new_session(rt[p].ip, rt[p].port, rt[p].sip, now))
    /\ connection_lock' = Free
    /\ rt' = [rt EXCEPT ![p] = [RIdle EXCEPT !.pc = AfterTrack(p), !.kind = rt[p].kind,
                                             !.ip = rt[p].ip]]
    /\ UNCHANGED <<now, ticks, tokVars, maint, requests, iface, catVars, strVars>>

LockStep(p) ==
    \/ TrkCheck(p)
    \/ CleanupOldest(p)
    \/ LkWith(p)
    \/ LkIfaceAcquire(p)
    \/ LkIfaceRelease(p)
    \/ LkInsert(p)
    \/ UpdateStatus(p)

LockNext ==
    \/ RegTick
    \/ MaintCycle
    \/ \E p \in Threads : LockStep(p)

LockSpec == RegInit /\ [][LockNext]_vars

CatSpec == Init /\ [][CatNext]_vars

StreamInit == InitClock /\ InitTokens /\ InitRegistry /\ InitCatalog /\ InitStreamRequest

StreamSpec == StreamInit /\ [][StreamNext]_vars

\* ===================================================================== claims
\* The token lifecycle as the specification's data model states it.
TokenState(tokens, k, t) ==
    IF k = NoToken \/ k \notin DOMAIN tokens THEN "Invalid"
    ELSE IF tokens[k].tag # "dict" THEN "Legacy"
    ELSE IF tokens[k].used_time = None
         THEN (IF t < tokens[k].expire_time THEN "ValidUnused" ELSE "Invalid")
         ELSE (IF t <= tokens[k].used_time[1] + TOKEN_USED_CLEANUP_TIME
               THEN "ValidUsedWithinGrace" ELSE "Invalid")

IndexDone(p) == th[p].pc = "done" /\ th[p].op = "index" /\ th[p].tok \in Tokens

\* C1: of the callers that consume one token concurrently, at most one is let
\* in (observes Consumed); the others observe AlreadyUsed.
C1_AtMostOneConsumed == \A k \in Tokens : hist.consumed[k] <= 1

\* C2: with one handler at a time, a token just issued validates as unused;
\* a Consume of a token in the store returns Consumed if none did before and
\* AlreadyUsed afterwards, grace window included; Consumed is returned at most
\* once for a token.
C2_ConsumeOutcomes ==
    \A p \in Threads : IndexDone(p) =>
        LET k == th[p].tok
            r == th[p].res
        IN /\ r \in {"Consumed", "AlreadyUsed", "Invalid"}
           /\ hist.consumed[k] <= 1
           /\ r = "Consumed" => hist.consumed[k] = 1
           /\ r = "AlreadyUsed" => hist.consumed[k] = 1 /\ k \in DOMAIN valid_tokens
           /\ r = "Invalid" <=> k \notin DOMAIN valid_tokens

C2_IssueStep ==
    \A p \in Threads :
        (th[p].pc = "idle" /\ th'[p].pc = "done" /\ th'[p].res = "success")
            => TokenState(valid_tokens', th'[p].tok, now') = "ValidUnused"

C2_SequentialLifecycle == [](C2_ConsumeOutcomes) /\ [][C2_IssueStep]_vars

\* C2 witness: a second Consume was answered AlreadyUsed while the token still
\* validates (grace window) after the clock moved.
C2_Witness ==
    \E p \in Threads :
        /\ IndexDone(p) /\ th[p].res = "AlreadyUsed"
        /\ is_token_valid(valid_tokens, th[p].tok, now)
        /\ now > hist.first_use[th[p].tok][1]

\* C6: a /videos or /video request is served from the restricted catalog
\* exactly when its token is, at the moment it is looked up, valid-unused or
\* valid-used-within-grace.
ValidateReturns(p) ==
    /\ th[p].pc \in {"idle", "val_read"}
    /\ th'[p].pc = "done"
    /\ th'[p].op \in {"videos", "video"}
    /\ th'[p].res \in {"secret", "normal"}

C6_Step ==
    \A p \in Threads : ValidateReturns(p) =>
        (th'[p].res = "secret"
            <=> TokenState(valid_tokens, th'[p].tok, now)
                    \in {"ValidUnused", "ValidUsedWithinGrace"})

C6_CatalogByValidity == [][C6_Step]_vars

\* C6 witness: a listing was served from the restricted catalog for a token
\* already consumed, and another request was served from the open one for a
\* token the store still holds.
C6_Witness ==
    /\ \E p \in Threads :
        /\ th[p].pc = "done" /\ th[p].op \in {"videos", "video"}
        /\ th[p].res = "secret" /\ hist.consumed[th[p].tok] = 1
    /\ \E p \in Threads :
        /\ th[p].pc = "done" /\ th[p].op \in {"videos", "video"}
        /\ th[p].res = "normal" /\ th[p].tok \in DOMAIN valid_tokens

\* C7: a token first consumed at time t and not invalidated validates at
\* every time up to t + 3600 and at no time after, swept or not.
C7_GraceFromFirstUse ==
    \A k \in Tokens :
        (hist.first_use[k] # None /\ k \notin hist.invalidated)
            => (is_token_valid(valid_tokens, k, now)
                    <=> now <= hist.first_use[k][1] + TOKEN_USED_CLEANUP_TIME)

\* C8: when a sweep begun at time t returns, the store holds no token with
\* used_time null and expire_time < t; and a Validate of a token that is
\* absent, or unused and past its expire_time, answers Invalid.
SweepReturns(p) ==
    /\ th[p].pc = "sweep_del"
    /\ th'[p].pc # "sweep_del"
    /\ th'[p].res # "KeyError"

C8_SweepStep ==
    \A p \in Procs : SweepReturns(p) =>
        \A k \in DOMAIN valid_tokens' :
            ~(valid_tokens'[k].used_time = None /\ valid_tokens'[k].expire_time < th[p].ct)

C8_ValidateStep ==
    \A p \in Threads : ValidateReturns(p) =>
        LET k == th'[p].tok IN
        (k \notin DOMAIN valid_tokens
            \/ (valid_tokens[k].used_time = None /\ valid_tokens[k].expire_time < now))
        => th'[p].res = "normal"

C8_SweepRemovesExpired == [][C8_SweepStep /\ C8_ValidateStep]_vars

\* C8 witness: the maintenance sweep has deleted a token that was never
\* consumed nor invalidated.
C8_Witness ==
    /\ th[Maint].pc = "done" /\ th[Maint].res = "swept" /\ th[Maint].cnt = 1
    /\ \E k \in Tokens :
        /\ k <= issued /\ k \notin DOMAIN valid_tokens
        /\ hist.consumed[k] = 0 /\ k \notin hist.invalidated

\* C13: Issue with the configured password adds exactly one token, unused
\* and expiring 300 s from now, and answers success with its identifier;
\* with another password it answers failure and leaves the store as it was.
IssueReturns(p) ==
    th[p].pc = "idle" /\ th'[p].pc = "done" /\ th'[p].op = "verify_secret"

C13_Step ==
    \A p \in Threads : IssueReturns(p) =>
        IF th'[p].pw = SECRET_PASSWORD
        THEN /\ th'[p].res = "success"
             /\ th'[p].tok \notin DOMAIN valid_tokens
             /\ DOMAIN valid_tokens' = DOMAIN valid_tokens \cup {th'[p].tok}
             /\ \A k \in DOMAIN valid_tokens : valid_tokens'[k] = valid_tokens[k]
             /\ valid_tokens'[th'[p].tok].tag = "dict"
             /\ valid_tokens'[th'[p].tok].expire_time = now + 300
             /\ valid_tokens'[th'[p].tok].used_time = None
        ELSE /\ th'[p].res = "rejected"
             /\ valid_tokens' = valid_tokens

C13_IssueOutcomes == [][C13_Step]_vars

\* C13 witness: one thread was issued a token that is in the store, another
\* was turned away with a wrong password.
C13_Witness ==
    /\ \E p \in Threads :
         /\ th[p].pc = "done" /\ th[p].op = "verify_secret" /\ th[p].res = "success"
         /\ th[p].pw = SECRET_PASSWORD /\ th[p].tok \in DOMAIN valid_tokens
    /\ \E p \in Threads :
         /\ th[p].pc = "done" /\ th[p].op = "verify_secret" /\ th[p].res = "rejected"
         /\ th[p].pw # SECRET_PASSWORD

\* C14: Invalidate always answers 204; afterwards the named token is not in
\* the store, whatever its state was, and does not validate; every other
\* token is unchanged; on an absent token the store is unchanged.
InvalidateReturns(p) ==
    /\ th[p].pc \in {"idle", "inv_del"}
    /\ th'[p].pc = "done"
    /\ th'[p].op = "invalidate_token"

C14_Step ==
    \A p \in Threads : InvalidateReturns(p) =>
        LET k == th'[p].tok IN
        /\ th'[p].res = "204"
        /\ k \notin DOMAIN valid_tokens'
        /\ DOMAIN valid_tokens' = DOMAIN valid_tokens \ {k}
        /\ \A j \in DOMAIN valid_tokens' : valid_tokens'[j] = valid_tokens[j]
        /\ ~is_token_valid(valid_tokens', k, now')

C14_InvalidateTotal == [][C14_Step]_vars

\* C15: Validate writes nothing: a /videos or /video request leaves the token
\* store as it found it, so a valid unused token is still unused after it,
\* and a Consume that finds the token unused in the store is let in.
ValidateStep(p) ==
    /\ th'[p] # th[p]
    /\ th'[p].op \in {"videos", "video"}

C15_FrameStep ==
    \A p \in Threads : ValidateStep(p) =>
        /\ valid_tokens' = valid_tokens
        /\ hist' = hist
        /\ issued' = issued

C15_ConsumeStep ==
    \A p \in Threads :
        /\ (th[p].pc = "idx_read" /\ th'[p] # th[p] /\ th[p].tok \in DOMAIN valid_tokens
              /\ valid_tokens[th[p].tok].used_time = None)
           => th'[p].pc = "idx_write"
        /\ (th[p].pc = "idx_write" /\ th'[p] # th[p] /\ th[p].tok \in DOMAIN valid_tokens)
           => (th'[p].pc = "done" /\ th'[p].res = "Consumed")

C15_ValidateFrame == [][C15_FrameStep /\ C15_ConsumeStep]_vars

\* C15 witness: a request was served from the restricted catalog for a token
\* that is still unused in the store afterwards, and a Consume of that token
\* has found it unused and is about to be let in.
C15_Witness ==
    \E p, q \in Threads :
        /\ th[p].pc = "done" /\ th[p].op \in {"videos", "video"} /\ th[p].res = "secret"
        /\ th[p].tok \in DOMAIN valid_tokens
        /\ valid_tokens[th[p].tok].used_time = None
        /\ hist.consumed[th[p].tok] = 0
        /\ th[q].pc = "idx_write" /\ th[q].tok = th[p].tok

\* C3: the registry never holds more than MAX_CONNECTIONS sessions, whatever
\* the interleaving of Track, UpdateStatus, capacity eviction and the
\* maintenance loop's eviction.
C3_RegistryBounded == Len(active_connections) <= MAX_CONNECTIONS

\* C3 witness: the registry is full and holds a session that Track created
\* for an address it did not know.
C3_Witness ==
    /\ Len(active_connections) = MAX_CONNECTIONS
    /\ \E i \in 1..NewAddrs : HasAddr(active_connections, NewAddr(i))

\* C11: with the registry at MAX_CONNECTIONS and nothing else running, a Track
\* for an unknown address evicts exactly the 10 sessions seen longest ago,
\* then inserts its own: 91 sessions afterwards.
C11_EvictStep ==
    \A p \in Threads :
        (/\ rt[p].pc = "co_lock" /\ rt[p].seen = MAX_CONNECTIONS
         /\ rt'[p].pc # "co_lock")
        => /\ Len(active_connections') = MAX_CONNECTIONS - 10
           /\ \A i \in 1..Len(active_connections') :
                 \E j \in 1..Len(active_connections) :
                     active_connections[j] = active_connections'[i]
           /\ \A j \in 1..Len(active_connections) :
                 HasAddr(active_connections', active_connections[j].ip)
                 \/ \A i \in 1..Len(active_connections') :
                        active_connections[j].last_seen <= active_connections'[i].last_seen
           /\ rt'[p].pc = "trk_lock"

C11_InsertStep ==
    \A p \in Threads :
        (/\ rt[p].pc = "trk_lock" /\ rt[p].seen = MAX_CONNECTIONS
         /\ ~HasAddr(active_connections, rt[p].ip)
         /\ rt'[p] # rt[p])
        => /\ rt'[p].pc \in {"idle", "upd_lock"}
           /\ Len(active_connections') = MAX_CONNECTIONS - 10 + 1
           /\ SubSeq(active_connections', 1, MAX_CONNECTIONS - 10) = active_connections
           /\ active_connections'[Len(active_connections')].ip = rt[p].ip

C11_CapacityEviction == [][C11_EvictStep /\ C11_InsertStep]_vars

\* C11 witness: the registry was full, a Track for an unknown address has
\* run, and 91 sessions are left, the last of them the new one.
C11_Witness ==
    /\ Len(active_connections) = MAX_CONNECTIONS - 10 + 1
    /\ \E i \in 1..NewAddrs :
         active_connections[Len(active_connections)].ip = NewAddr(i)
    /\ \A p \in Threads : rt[p].pc # "co_lock"

\* C18: UpdateStatus writes the reported video, position and duration into
\* the caller's session if there is one, and changes nothing else but that
\* session's last_seen; without a session it leaves the registry as it is;
\* it answers success either way.
UpdateStatusStep(p) == rt[p].pc = "upd_lock" /\ rt'[p] # rt[p]

C18_Step ==
    \A p \in Threads : UpdateStatusStep(p) =>
        /\ rt'[p].res = "success"
        /\ IF HasAddr(active_connections, rt[p].ip)
           THEN LET i == IndexOf(active_connections, rt[p].ip) IN
                /\ Len(active_connections') = Len(active_connections)
                /\ \A j \in 1..Len(active_connections) :
                      j # i => active_connections'[j] = active_connections[j]
                /\ \E data \in StatusReports :
                      active_connections'[i] =
                          [active_connections[i] EXCEPT !.video = data.video,
                                                        !.position = data.position,
                                                        !.duration = data.duration,
                                                        !.last_seen = now]
           ELSE active_connections' = active_connections

ClaimedInterval(c, s) ==
    /\ c > 50 => s = 30
    /\ (10 < c /\ c <= 50) => s = 60
    /\ (0 < c /\ c <= 10) => s = 120
    /\ c = 0 => s = 300

C19_SleepInterval ==
    /\ maint.cycles = 1 => ClaimedInterval(maint.connection_count, maint.sleep_time)
    /\ \A c \in 0..MAX_CONNECTIONS : ClaimedInterval(c, sleep_time_for(c))

\* C19 witness: a cycle that counted between 11 and 50 sessions chose 60 s.
C19_Witness ==
    /\ maint.cycles = 1
    /\ maint.connection_count > 10 /\ maint.connection_count <= 50
    /\ maint.sleep_time = 60

\* C20: the maintenance loop never leaves its while loop and never spins: a
\* cycle that ends in an exception sleeps 60 s, every cycle sleeps at least
\* 30 s, and the next cycle begins only when that sleep is over.
LoopFailed == th[Maint].res \in {"RuntimeError", "KeyError"}

C20_SleepStep ==
    (th[Maint].pc = "done" /\ th'[Maint] # th[Maint]) =>
        /\ th'[Maint].pc = "idle"
        /\ maint'.sleep_time >= 30
        /\ maint'.wake_at = now + maint'.sleep_time
        /\ LoopFailed => maint'.sleep_time = 60

C20_BeginStep ==
    (th[Maint].pc = "idle" /\ th'[Maint].pc # "idle") =>
        /\ now >= maint.wake_at
        /\ th'[Maint].pc = "sweep_start"

C20_LoopAlive ==
    th[Maint].pc \in {"idle", "sweep_start", "sweep_iter", "sweep_del", "done"}

C20_LoopNeverStops == [](C20_LoopAlive) /\ [][C20_SleepStep /\ C20_BeginStep]_vars

\* C20 witness: a cycle ended in the except branch and slept 60 s, the
\* sleep is over and the next cycle has begun.
C20_Witness ==
    /\ th[Maint].pc = "sweep_start"
    /\ maint.cycles = 1
    /\ maint.caught
    /\ maint.sleep_time = 60
    /\ now >= maint.wake_at

\* C21: no interleaving of Issue, Validate, Consume, Invalidate and Sweep
\* makes a request handler end in an unhandled fault: every request on the
\* token store ends in one of its normal outcomes.
HandlerFaults == {"KeyError", "RuntimeError"}

C21_NoUnhandledFault ==
    \A p \in Threads : th[p].pc = "done" => th[p].res \notin HandlerFaults

\* C22: Removed is terminal: a token that was issued and is no longer in the
\* store is never in the store again and never validates again; a Validate or
\* a Consume that looks it up is answered as for an identifier that was never
\* issued (the open catalog, Invalid).
Removed(k) == k <= issued /\ k \notin DOMAIN valid_tokens
NeverIssued(k) == k > issued

C22_StaysRemoved ==
    \A k \in Tokens : Removed(k) =>
        /\ k \notin DOMAIN valid_tokens'
        /\ ~is_token_valid(valid_tokens', k, now')

C22_AnswerStep ==
    \A p \in Threads : \A k \in Tokens : (Removed(k) \/ NeverIssued(k)) =>
        /\ (th[p].pc = "idle" /\ th'[p].op \in {"videos", "video"} /\ th'[p].tok = k)
             => (th'[p].pc = "done" /\ th'[p].res = "normal")
        /\ (th[p].pc = "idx_member" /\ th[p].tok = k /\ th'[p] # th[p])
             => (th'[p].pc = "done" /\ th'[p].res = "Invalid")

C22_RemovedIsTerminal == [][C22_StaysRemoved /\ C22_AnswerStep]_vars

\* C22 witness: a token was consumed and then removed; a Consume that looked
\* it up afterwards was answered Invalid, and a Validate the open catalog.
C22_Witness ==
    \E k \in Tokens : \E p, q \in Threads :
        /\ Removed(k) /\ hist.consumed[k] = 1
        /\ IndexDone(p) /\ th[p].tok = k /\ th[p].res = "Invalid"
        /\ th[q].pc = "done" /\ th[q].op \in {"videos", "video"}
        /\ th[q].tok = k /\ th[q].res = "normal"

\* C23: under any interleaving of List calls, every snapshot in the cache and
\* every list returned is the whole output of one scan, and the snapshot's
\* timestamp is that scan's.
EmptySnapshot == [files |-> <<>>, last_update |-> 0]

C23_Consistent ==
    /\ \A c \in Catalogs :
          \/ video_list_cache[c] = EmptySnapshot
          \/ \E s \in cat_hist.scans :
                /\ s.key = c
                /\ video_list_cache[c] = [files |-> s.files, last_update |-> s.ct]
    /\ \A p \in Threads : lt[p].pc = "done" =>
          \E s \in cat_hist.scans : s.key = lt[p].key /\ s.files = lt[p].res

C23_ScanStep ==
    \A p \in Threads : (lt[p].pc = "scan" /\ lt'[p] # lt[p]) =>
        /\ lt'[p].ct = lt[p].ct
        /\ lt'[p].files = IF fs[lt[p].key].exists THEN scan(fs[lt[p].key].tree) ELSE <<>>
        /\ video_list_cache' = video_list_cache

C23_SnapshotsWhole == [](C23_Consistent) /\ [][C23_ScanStep]_vars

\* C23 witness: two calls scanned one catalog at different times with different
\* outputs; the later scan was returned to its caller, and the earlier scan,
\* stored last, is the snapshot, with its own timestamp.
C23_Witness ==
    \E s1, s2 \in cat_hist.scans :
        /\ s1.key = s2.key /\ s1.ct < s2.ct /\ s1.files # s2.files
        /\ video_list_cache[s1.key] = [files |-> s1.files, last_update |-> s1.ct]
        /\ \E p, q \in Threads :
              /\ p # q
              /\ lt[p].pc = "done" /\ lt[p].key = s1.key /\ lt[p].res = s1.files
              /\ lt[q].pc = "done" /\ lt[q].key = s1.key /\ lt[q].res = s2.files

\* C24: no thread ever holds two of the shared-state locks at once; in
\* particular a thread in track_connection that holds connection_lock does not
\* hold interface_cache_lock.
C24_OneLockAtATime ==
    \A p \in Threads : ~(connection_lock = p /\ iface.lock = p)

\* C25: a token cannot be un-consumed: once its used_time is set, no step
\* resets it to null or changes it while the token stays in the store, so the
\* grace window is anchored at the first consumption.
C25_Step ==
    \A k \in DOMAIN valid_tokens \cap DOMAIN valid_tokens' :
        valid_tokens[k].used_time # None
            => valid_tokens'[k].used_time = valid_tokens[k].used_time

C25_UsedTimeFixed == [][C25_Step]_vars

\* C26: capacity eviction is oldest-first: a call of
\* cleanup_oldest_connections removes nothing from a registry of fewer than
\* MAX_CONNECTIONS sessions; otherwise it removes min(10, size) sessions, each
\* with a last_seen no greater than that of every session that stays, and the
\* sessions that stay are as they were.
CleanupOldestStep(p) == rt[p].pc = "co_lock" /\ rt'[p] # rt[p] /\ rt'[p].pc = "trk_lock"

Stays(conns, after, j) == HasAddr(after, conns[j].ip)

C26_Step ==
    \A p \in Threads : CleanupOldestStep(p) =>
        LET before == active_connections
            after == active_connections'
        IN IF Len(before) < MAX_CONNECTIONS
           THEN after = before
           ELSE /\ Len(after) = Len(before) - Min(10, Len(before))
                /\ after = SelectSeq(before, LAMBDA c : HasAddr(after, c.ip))
                /\ \A i, j \in 1..Len(before) :
                      (~Stays(before, after, i) /\ Stays(before, after, j))
                          => before[i].last_seen <= before[j].last_seen

C26_OldestFirst == [][C26_Step]_vars

\* C26 witness: a full registry has lost ten sessions to a capacity eviction;
\* the first session in insertion order, which was not among the oldest, is
\* still there, and a later one that was among the oldest is gone.
C26_Witness ==
    \E p \in Threads :
        /\ rt[p].pc = "trk_lock" /\ rt[p].seen = MAX_CONNECTIONS
        /\ Len(active_connections) = MAX_CONNECTIONS - 10
        /\ HasAddr(active_connections, ExistingAddr)
        /\ ~HasAddr(active_connections, ExistingAddr + 1)

\* C27: the eviction of a maintenance cycle run at time now removes exactly
\* the sessions with now - last_seen > 30: none of them is left, and every
\* session with now - last_seen <= 30 is still there, unchanged.
EvictionStep == maint' # maint /\ rt' = rt

C27_Step ==
    EvictionStep =>
        /\ \A i \in 1..Len(active_connections') :
              now - active_connections'[i].last_seen <= 30
        /\ \A j \in 1..Len(active_connections) :
              now - active_connections[j].last_seen <= 30
                  => \E i \in 1..Len(active_connections') :
                        active_connections'[i] = active_connections[j]
        /\ \A i \in 1..Len(active_connections') :
              \E j \in 1..Len(active_connections) :
                  active_connections[j] = active_connections'[i]
        /\ Len(active_connections') =
              Cardinality({j \in 1..Len(active_connections) :
                              now - active_connections[j].last_seen <= 30})

C27_EvictsExactlyExpired == [][C27_Step]_vars

\* C27 witness: a cycle has just evicted some sessions and kept one that was
\* last seen exactly 30 s before.
C27_Witness ==
    /\ maint.cycles = 1
    /\ maint.wake_at = now + maint.sleep_time
    /\ Len(active_connections) < maint.connection_count
    /\ \E i \in 1..Len(active_connections) :
          now - active_connections[i].last_seen = 30

\* C28: with the maintenance thread scheduled fairly, a session whose address
\* sends nothing more is eventually removed: once it is past the inactivity
\* timeout and the loop's sleep is over, it leaves the registry, whatever the
\* other clients do.
QuietAddr == ExistingAddr + 1      \* an address that sends no request

SessionDue(ip) ==
    /\ HasAddr(active_connections, ip)
    /\ now - active_connections[IndexOf(active_connections, ip)].last_seen
           > CONNECTION_TIMEOUT
    /\ now >= maint.wake_at

C28_IdleSessionRemoved ==
    SessionDue(QuietAddr) ~> ~HasAddr(active_connections, QuietAddr)

\* C29: with the maintenance thread scheduled fairly, a token that meets the
\* Removed condition (never consumed and past expire_time, or consumed and
\* past used_time + 3600) is eventually deleted: once it is removable and the
\* loop's sleep is over, it leaves the store, whatever the request threads do.
Removable(k) ==
    /\ k \in DOMAIN valid_tokens
    /\ \/ valid_tokens[k].used_time = None /\ now > valid_tokens[k].expire_time
       \/ valid_tokens[k].used_time # None
            /\ now > valid_tokens[k].used_time[1] + 3600

SweepDue == th[Maint].pc = "idle" /\ now >= maint.wake_at

C29_RemovableTokenSwept ==
    \A k \in Tokens : (Removable(k) /\ SweepDue) ~> (k \notin DOMAIN valid_tokens)

\* C30: for a file of S >= 1 bytes and a header bytes=A-B, either bound
\* optional, beyond the end of the file or with B < A, the 206 answer uses
\* A' = A (0 if missing) clamped into [0, S-1] and B' = B (S-1 if missing)
\* clamped into [A', S-1]: 0 <= A' <= B' <= S-1, Content-Range is
\* 'bytes A'-B'/S' and Content-Length is B'-A'+1 <= S.
Clamp(x, lo, hi) == IF x < lo THEN lo ELSE IF x > hi THEN hi ELSE x

RangedRequest == sreq.is_file /\ sreq.ranged /\ sreq.size >= 1

C30_RangeClamped ==
    (sresp # NoResponse /\ RangedRequest) =>
        LET S == sreq.size
            A1 == Clamp(IF sreq.a = None THEN 0 ELSE sreq.a[1], 0, S - 1)
            B1 == Clamp(IF sreq.b = None THEN S - 1 ELSE sreq.b[1], A1, S - 1)
        IN /\ sresp.status = 206
           /\ 0 <= A1 /\ A1 <= B1 /\ B1 <= S - 1
           /\ sresp.content_range = <<A1, B1, S>>
           /\ sresp.content_range_text =
                 <<"b", "y", "t", "e", "s", " ">> \o Dec(A1) \o <<"-">> \o Dec(B1)
                     \o <<"/">> \o Dec(S)
           /\ sresp.content_length = B1 - A1 + 1
           /\ sresp.content_length <= S

\* C30 witness: a range that starts beyond the end of the file and ends before
\* its start was answered with the file's last byte.
C30_Witness ==
    /\ sresp # NoResponse /\ RangedRequest
    /\ sreq.a # None /\ sreq.b # None
    /\ sreq.a[1] > sreq.size - 1 /\ sreq.b[1] < sreq.a[1] /\ sreq.b[1] < sreq.size - 1
    /\ sresp.status = 206
    /\ sresp.content_range = <<sreq.size - 1, sreq.size - 1, sreq.size>>
    /\ sresp.content_length = 1

\* C4: a Track call never blocks forever: no thread waits for connection_lock
\* while the lock is held by a thread that is itself waiting for it.
C4_TrackNeverBlocks ==
    \A p \in Threads : ~(rt[p].pc = "co_lock" /\ connection_lock = p)

\* C5: for a file of S >= 1 bytes and 0 <= A <= B < S, the answer to
\* Range: bytes=A-B is 206 with Content-Range bytes A-B/S and a body of the
\* B-A+1 bytes of the file at offsets A..B.
RECURSIVE Concat(_)
Concat(chunks) == IF chunks = <<>> THEN <<>> ELSE Head(chunks) \o Concat(Tail(chunks))

ValidRangeRequest ==
    /\ sreq.is_file /\ sreq.ranged /\ sreq.a # None /\ sreq.b # None
    /\ sreq.size >= 1 /\ sreq.a[1] <= sreq.b[1] /\ sreq.b[1] < sreq.size

C5_RangeBody ==
    (sresp # NoResponse /\ ValidRangeRequest) =>
        /\ sresp.status = 206
        /\ sresp.content_range = <<sreq.a[1], sreq.b[1], sreq.size>>
        /\ Len(Concat(sresp.body)) = sreq.b[1] - sreq.a[1] + 1
        /\ Concat(sresp.body) = SubSeq(FileBytes(sreq.size), sreq.a[1] + 1, sreq.b[1] + 1)

\* C12: for a file of S >= 1 bytes the answer to the open-ended range
\* bytes=A- is the answer to bytes=A-(S-1): status, Content-Range,
\* Content-Length and body.
OpenEndedRequest ==
    /\ sreq.is_file /\ sreq.ranged /\ sreq.a # None /\ sreq.b = None
    /\ sreq.size >= 1

C12_OpenEndedRange ==
    (sresp # NoResponse /\ OpenEndedRequest) =>
        sresp = video(TRUE, sreq.size, RangeHeader(sreq.a, Some(sreq.size - 1)))

\* C12 witness: bytes=A- was answered for an A before the last byte, with
\* the range running to the end of the file.
C12_Witness ==
    /\ sresp # NoResponse /\ OpenEndedRequest
    /\ sreq.a[1] < sreq.size - 1
    /\ sresp.status = 206
    /\ sresp.content_range = <<sreq.a[1], sreq.size - 1, sreq.size>>
    /\ sresp.content_length = sreq.size - sreq.a[1]

\* C16: without a Range header an existing file of S bytes is answered 200
\* with Content-Length S and Accept-Ranges bytes; the body is a finite
\* sequence of chunks of 65536 bytes, the last one possibly shorter, that
\* concatenate to the file.
FullRequest == sreq.is_file /\ ~sreq.ranged /\ sreq.fail_at = None /\ sreq.raw = None

C16_FullBody ==
    (sresp # NoResponse /\ FullRequest) =>
        /\ sresp.status = 200
        /\ sresp.content_length = sreq.size
        /\ sresp.accept_ranges = "bytes"
        /\ \A i \in 1..Len(sresp.body) :
              /\ Len(sresp.body[i]) >= 1
              /\ Len(sresp.body[i]) <= 65536
              /\ i < Len(sresp.body) => Len(sresp.body[i]) = 65536
        /\ Concat(sresp.body) = FileBytes(sreq.size)

\* C16 witness: a file longer than two chunks was streamed in three chunks.
C16_Witness ==
    /\ sresp # NoResponse /\ FullRequest
    /\ sreq.size > 2 * 65536
    /\ Len(sresp.body) = 3
    /\ Len(sresp.body[3]) = sreq.size - 2 * 65536

\* C17: a /video request for a path that is no existing file ends with 404,
\* Range header or not: no chunk is produced, no length or range is
\* announced, and the token store is as before.
C17_Step ==
    (sresp = NoResponse /\ sresp' # NoResponse /\ ~sreq.is_file) =>
        /\ sresp'.status = 404
        /\ sresp'.body = <<>>
        /\ sresp'.content_range = <<>>
        /\ sresp'.content_length = -1
        /\ valid_tokens' = valid_tokens

C17_MissingFile == [][C17_Step]_vars

\* C17 witness: a request with a Range header for a missing file got a 404.
C17_Witness ==
    /\ ~sreq.is_file /\ sreq.ranged /\ sreq.a # None
    /\ sresp.status = 404

\* C9: a List call without forceRefresh made within the TTL of the snapshot an
\* earlier call stored returns that snapshot, whatever the directory holds
\* (no media files included); any other call scans, and returns the
\* directory's contents as of the scan.
ListBegins(p) == lt[p].pc = "idle" /\ lt'[p].pc # "idle"

WithinTtl(c) == now - video_list_cache[c].last_update < VIDEO_CACHE_EXPIRE

C9_CheckStep ==
    \A p \in Threads : ListBegins(p) =>
        IF ~lt'[p].force /\ cat_hist.src[lt'[p].key] # "none" /\ WithinTtl(lt'[p].key)
        THEN lt'[p].pc = "done" /\ lt'[p].res = video_list_cache[lt'[p].key].files
        ELSE lt'[p].pc = "scan"

C9_ScanStep ==
    \A p \in Threads : (lt[p].pc = "scan" /\ lt'[p].pc = "store") =>
        lt'[p].files = IF fs[lt[p].key].exists THEN scan(fs[lt[p].key].tree) ELSE <<>>

C9_CachedWithinTtl == [][C9_CheckStep /\ C9_ScanStep]_vars

\* C10: once List found the catalog root missing and cached the empty list,
\* a List call without forceRefresh within the TTL is answered from the cache:
\* it returns the empty list without touching the filesystem.
C10_CheckStep ==
    \A p \in Threads :
        (/\ ListBegins(p)
         /\ ~lt'[p].force
         /\ cat_hist.src[lt'[p].key] = "missing"
         /\ WithinTtl(lt'[p].key))
        => (lt'[p].pc = "done" /\ lt'[p].res = <<>>)

C10_MissingRootCached == [][C10_CheckStep]_vars

\* C31: a read error while a full body is streamed ends the chunk sequence
\* and does not leave the generator: the bytes yielded are a prefix of the
\* file, those read before the error, and nothing follows them.
FailingRequest == sreq.is_file /\ ~sreq.ranged /\ sreq.fail_at # None

C31_ReadErrorEndsStream ==
    (sresp # NoResponse /\ FailingRequest) =>
        LET sent == Concat(sresp.body)
            n == Min(sreq.fail_at[1] * 65536, sreq.size)
        IN /\ sresp.stream_fault = ""
           /\ sent = SubSeq(FileBytes(sreq.size), 1, n)
           /\ Len(sresp.body) <= sreq.fail_at[1] + 1
           /\ \A i \in 1..Len(sresp.body) :
                 i > sreq.fail_at[1] => sresp.body[i] = <<>>

\* C31 witness: the third read of a file longer than two chunks failed: two
\* chunks of the file were sent, and no byte after them.
C31_Witness ==
    /\ sresp # NoResponse /\ FailingRequest
    /\ sreq.fail_at = Some(2) /\ sreq.size > 2 * 65536
    /\ Len(Concat(sresp.body)) = 2 * 65536
    /\ sresp.status = 200

\* C32: a sweep removes only tokens that meet the Removed condition: every
\* token that validates when the sweep deletes is in the store afterwards with
\* expire_time and used_time as they were, and the count the sweep returns is
\* the number of tokens it deleted.
SweepDeletes(p) == th[p].pc = "sweep_del" /\ th'[p] # th[p]

C32_Step ==
    \A p \in Procs : SweepDeletes(p) =>
        /\ \A k \in DOMAIN valid_tokens :
              (is_token_valid(valid_tokens, k, now)
                   \/ is_token_valid(valid_tokens, k, th[p].ct))
              => /\ k \in DOMAIN valid_tokens'
                 /\ valid_tokens'[k].expire_time = valid_tokens[k].expire_time
                 /\ valid_tokens'[k].used_time = valid_tokens[k].used_time
        /\ th'[p].res = "swept" =>
              th'[p].cnt = Cardinality(DOMAIN valid_tokens \ DOMAIN valid_tokens')

C32_SweepRemovesOnlyRemovable == [][C32_Step]_vars

\* C33: Consume and Validate agree on the first-use deadline: a Consume that
\* succeeds on a never-used token does so at an instant at which Validate
\* accepts that token, the instant now = expire_time included.
ConsumeSucceeds(p) == th[p].pc = "idx_write" /\ th'[p].res = "Consumed"

C33_Step ==
    \A p \in Threads :
        (ConsumeSucceeds(p) /\ th[p].tok \in DOMAIN valid_tokens
             /\ first_use(valid_tokens[th[p].tok]))
        => is_token_valid(valid_tokens, th[p].tok, now)

C33_ConsumeWithinDeadline == [][C33_Step]_vars

\* C34: the cached snapshot's last-scan timestamp never decreases: the result
\* of a scan that started earlier never replaces a snapshot written by a scan
\* that started later.
C34_Step ==
    \A c \in Catalogs :
        video_list_cache'[c].last_update >= video_list_cache[c].last_update

C34_LastScanMonotonic == [][C34_Step]_vars

\* C35: a Track for an address that has a session changes only that session's
\* last_seen and client_port: its telemetry, interface, server address and
\* connected_at are as they were, every other session is as it was, nothing is
\* evicted and the registry keeps its size, at capacity too; and a request
\* whose address is known at line 291 does not call cleanup_oldest_connections.
TouchStep(p) ==
    /\ rt[p].pc = "trk_lock" /\ rt'[p] # rt[p]
    /\ HasAddr(active_connections, rt[p].ip)

C35_Step ==
    \A p \in Threads :
        /\ TouchStep(p) =>
              LET i == IndexOf(active_connections, rt[p].ip) IN
              /\ Len(active_connections') = Len(active_connections)
              /\ \A j \in 1..Len(active_connections) :
                    j # i => active_connections'[j] = active_connections[j]
              /\ active_connections'[i] =
                    [active_connections[i] EXCEPT !.last_seen = now,
                                                  !.client_port = rt[p].port]
              /\ iface' = iface
              /\ rt'[p].pc # "co_lock"
        /\ (rt[p].pc = "idle" /\ rt'[p].pc # "idle"
                /\ HasAddr(active_connections, rt'[p].ip))
           => (rt'[p].pc = "trk_lock" /\ active_connections' = active_connections)

C35_TouchOnly == [][C35_Step]_vars

\* C35 witness: the registry is at capacity, a page request from a known
\* address has been tracked: its session, created before the clock moved,
\* carries the request's port and time, and no session is gone.
C35_Witness ==
    /\ Len(active_connections) = MAX_CONNECTIONS
    /\ ticks > 0
    /\ \E p \in Threads :
          /\ rt[p].pc = "idle" /\ rt[p].kind = "page"
          /\ HasAddr(active_connections, rt[p].ip)
          /\ LET s == active_connections[IndexOf(active_connections, rt[p].ip)] IN
             /\ s.last_seen = now
             /\ s.client_port = 50002
             /\ s.connected_at < Epoch
             /\ s.video = NotPlaying

\* C36: a maintenance cycle chooses its sleep interval from the number of
\* sessions left in the registry by its own eviction: a cycle whose eviction
\* empties the registry sleeps 300 s.
CycleRuns == maint' # maint

C36_Step ==
    CycleRuns =>
        /\ ClaimedInterval(Len(active_connections'), maint'.sleep_time)
        /\ maint'.wake_at = now + maint'.sleep_time

C36_SleepFromCurrentCount == [][C36_Step]_vars

\* C37: /monitor-data returns a point-in-time copy of the registry. The copy
\* is taken while connection_lock is held and no thread changes the registry
\* meanwhile; the body returned is that copy, whatever Track, UpdateStatus
\* and eviction did after the lock was released; active_count and
\* total_clients are its length; the request leaves the registry as it was and
\* builds its body when it no longer holds the lock.
C37_Held ==
    \A p \in Threads : rt[p].pc = "mon_copy" => connection_lock = p

C37_Step ==
    \A p \in Threads :
        /\ (rt[p].pc = "mon_copy" \/ rt'[p].pc = "mon_copy")
              => active_connections' = active_connections
        /\ (rt[p].pc = "mon_copy" /\ rt'[p].pc = "mon_reply")
              => /\ Len(rt'[p].snap) = Len(active_connections)
                 /\ \A i \in 1..Len(active_connections) :
                       /\ rt'[p].snap[i].client_ip = active_connections[i].ip
                       /\ \A f \in {"client_port", "server_ip", "interface", "video",
                                    "position", "duration", "bandwidth_down",
                                    "bandwidth_up", "last_seen"} :
                             rt'[p].snap[i][f] = active_connections[i][f]
                 /\ connection_lock' # p
        /\ (rt[p].pc = "mon_reply" /\ rt'[p] # rt[p])
              => /\ rt'[p].res = "200"
                 /\ rt'[p].mon.connections = rt[p].snap
                 /\ rt'[p].mon.active_count = Len(rt[p].snap)
                 /\ rt'[p].mon.total_clients = Len(rt[p].snap)
                 /\ connection_lock # p
                 /\ active_connections' = active_connections

C37_PointInTimeCopy == [](C37_Held) /\ [][C37_Step]_vars

\* C37 witness: a copy of a full registry was taken, another request has
\* evicted and inserted since, and the body returned has the 100 sessions of
\* the copy, not the 91 of the registry.
C37_Witness ==
    \E p \in Threads :
        /\ rt[p].kind = "monitor-data" /\ rt[p].res = "200"
        /\ rt[p].mon.active_count = MAX_CONNECTIONS
        /\ Len(rt[p].mon.connections) = MAX_CONNECTIONS
        /\ rt[p].mon.connections = rt[p].snap
        /\ Len(active_connections) = MAX_CONNECTIONS - CLEANUP_COUNT + 1

\* C38: every entry of the token store is a structured record with an
\* expire_time and a used_time (None or a timestamp): no bare timestamp and
\* no -1 is ever stored, no Consume takes the numeric branch, and every entry
\* has a time from which Validate rejects it and a sweep removes it.
Horizon(info) ==
    1 + (IF info.used_time = None THEN info.expire_time
         ELSE info.used_time[1] + TOKEN_USED_CLEANUP_TIME)

C38_StructuredEntries ==
    /\ \A k \in DOMAIN valid_tokens :
          /\ valid_tokens[k].tag = "dict"
          /\ valid_tokens[k].expire_time \in Nat \ {0}
          /\ \/ valid_tokens[k].used_time = None
             \/ /\ Len(valid_tokens[k].used_time) = 1
                /\ valid_tokens[k].used_time[1] \in Epoch..now
          /\ ~token_info_valid(valid_tokens[k], Horizon(valid_tokens[k]))
          /\ token_expired(valid_tokens[k], Horizon(valid_tokens[k]))
    /\ \A p \in Procs : ~th[p].num

\* C38 witness: the store holds a token that was issued and consumed, with
\* both fields set.
C38_Witness ==
    \E k \in DOMAIN valid_tokens :
        /\ hist.consumed[k] > 0
        /\ valid_tokens[k].tag = "dict"
        /\ valid_tokens[k].used_time # None
        /\ valid_tokens[k].expire_time = Epoch + TOKEN_LIFETIME

\* C39: for a zero-length file a request with a Range header is never told of
\* more bytes than the file has: Content-Length is at most the size, 0, and
\* Content-Range names no offset at or beyond the size.
EmptyFileRanged == sreq.is_file /\ sreq.ranged /\ sreq.size = 0

C39_EmptyFileRange ==
    (sresp # NoResponse /\ EmptyFileRanged) =>
        /\ sresp.content_length <= sreq.size
        /\ sresp.content_range # <<>> =>
              /\ sresp.content_range[1] < sreq.size
              /\ sresp.content_range[2] < sreq.size

\* C40: for an existing file every Range header value is resolved into an
\* HTTP response of status 200, 206 or 4xx: parsing the header raises no
\* exception in the handler, be the value without a '-', with a bound that is
\* not a number, or a list of several ranges.
HeaderSent == sreq.is_file /\ (sreq.ranged \/ sreq.raw # None)

C40_RangeAlwaysAnswered ==
    (sresp # NoResponse /\ HeaderSent) =>
        /\ sresp.fault = ""
        /\ sresp.status \in {200, 206} \cup (400..499)

====
